---- MODULE Spec2Model ----
(***************************************************************************)
(* Streaming, selector-scoped HTML capture and mutation engine of          *)
(* netlands/sites-templates.                                               *)
(*                                                                         *)
(* Two revisions of the engine are in the repository and both are          *)
(* modelled: src/htmlparser.js (the module the worker imports) and the     *)
(* later revision kept in src/resources/js/post-page.js (lines 1006-1623), *)
(* which adds the wildcard content handler and the write path.             *)
(*                                                                         *)
(* Strings are sequences of one-character strings, so that indexOf,        *)
(* regular expressions and concatenation are computed as the code does.    *)
(* The HTMLRewriter runtime is the external dispatcher: it delivers the    *)
(* events of a document one at a time, in document order, and runs the     *)
(* end-tag callbacks registered on an element when that element closes.    *)
(***************************************************************************)
EXTENDS Integers, Sequences, FiniteSets, TLC

\* ------------------------------------------------------------------ bounds

\* Number of events (open tags, text runs, comments, end tags) of a document.
MaxLen == 5

\* ----------------------------------------------------------------- strings

\* The JavaScript null, and a rejected promise (an exception to the caller).
\* Both are sequences, like every string of the model, and differ from every
\* string because a string holds one-character entries only.
NULL == <<"null">>

THROWN == <<"exception">>

RECURSIVE Concat(_)
\* The concatenation of a sequence of strings.
Concat(ss) == IF ss = <<>> THEN <<>> ELSE Head(ss) \o Concat(Tail(ss))

\* String.prototype.indexOf for a single character: 0 when absent (the code's
\* -1), else the 1-based index of the first occurrence.
IndexOf(s, ch) ==
  IF \E i \in 1..Len(s) : s[i] = ch
  THEN CHOOSE i \in 1..Len(s) : s[i] = ch /\ \A j \in 1..(i - 1) : s[j] # ch
  ELSE 0

\* String.prototype.lastIndexOf for a single character, 0 when absent.
LastIndexOf(s, ch) ==
  IF \E i \in 1..Len(s) : s[i] = ch
  THEN CHOOSE i \in 1..Len(s) : s[i] = ch /\ \A j \in (i + 1)..Len(s) : s[j] # ch
  ELSE 0

LowerOf ==
  [c \in {"A", "B", "D", "I", "M", "P", "R", "V", "X", "Y"} |->
     CASE c = "A" -> "a" [] c = "B" -> "b" [] c = "D" -> "d" [] c = "I" -> "i"
       [] c = "M" -> "m" [] c = "P" -> "p" [] c = "R" -> "r" [] c = "V" -> "v"
       [] c = "X" -> "x" [] c = "Y" -> "y"]

\* String.prototype.toLowerCase.
ToLowerCase(s) == [i \in 1..Len(s) |-> IF s[i] \in DOMAIN LowerOf THEN LowerOf[s[i]] ELSE s[i]]

\* The character class [a-zA-Z0-9] of the regular expressions.
AlNum ==
  {"a", "b", "c", "d", "e", "f", "g", "h", "i", "j", "k", "l", "m", "n", "o", "p",
   "q", "r", "s", "t", "u", "v", "w", "x", "y", "z",
   "A", "B", "C", "D", "E", "F", "G", "H", "I", "J", "K", "L", "M", "N", "O", "P",
   "Q", "R", "S", "T", "U", "V", "W", "X", "Y", "Z",
   "0", "1", "2", "3", "4", "5", "6", "7", "8", "9"}

RECURSIVE ReplaceQuotes(_)
\* value.replace(/"/g, '&quot;')
ReplaceQuotes(value) ==
  IF value = <<>> THEN <<>>
  ELSE (IF Head(value) = "\"" THEN <<"&", "q", "u", "o", "t", ";">> ELSE <<Head(value)>>)
       \o ReplaceQuotes(Tail(value))

RECURSIVE StripTags(_)
\* content.replace(/<[^>]*>/g, ''): every span from a '<' to the first '>'
\* after it is removed; a '<' with no '>' after it stays.
StripTags(s) ==
  IF s = <<>> THEN <<>>
  ELSE IF Head(s) = "<" /\ IndexOf(s, ">") # 0
       THEN StripTags(SubSeq(s, IndexOf(s, ">") + 1, Len(s)))
       ELSE <<Head(s)>> \o StripTags(Tail(s))

\* ------------------------------------------------------------- vocabulary

s_div == <<"d", "i", "v">>
s_img == <<"i", "m", "g">>
s_br == <<"b", "r">>
s_xy == <<"x", "-", "y">>
s_id == <<"i", "d">>
s_src == <<"s", "r", "c">>
s_title == <<"t", "i", "t", "l", "e">>
s_Hi == <<"H", "i">>
s_c == <<"c">>

\* List of HTML void elements (self-closing tags).
VOID_ELEMENTS ==
  { <<"a", "r", "e", "a">>, <<"b", "a", "s", "e">>, <<"b", "r">>, <<"c", "o", "l">>,
    <<"e", "m", "b", "e", "d">>, <<"h", "r">>, <<"i", "m", "g">>,
    <<"i", "n", "p", "u", "t">>, <<"l", "i", "n", "k">>, <<"m", "e", "t", "a">>,
    <<"p", "a", "r", "a", "m">>, <<"s", "o", "u", "r", "c", "e">>,
    <<"t", "r", "a", "c", "k">>, <<"w", "b", "r">> }

\* An event of the dispatcher.  matches says whether the target selector of
\* the call matches the element (selector matching is the dispatcher's).
Ev(type, tagName, attributes, text, matches) ==
  [type |-> type, tagName |-> tagName, attributes |-> attributes, text |-> text,
   matches |-> matches]

\* <div id="m" title="&quot;"> : matched, two attributes, a quote in a value
ElMatchDiv == Ev("open", s_div, << <<s_id, <<"m">> >>, <<s_title, <<"\"">> >> >>, <<>>, TRUE)
\* <x-y> : matched, no attribute, a tag name outside [a-zA-Z0-9]
ElMatchXY == Ev("open", s_xy, <<>>, <<>>, TRUE)
\* <img src="x.png"> : matched, void
ElMatchImg ==
  Ev("open", s_img, << <<s_src, <<"x", ".", "p", "n", "g">> >> >>, <<>>, TRUE)
\* <div> : not matched, same tag name as the matched div
ElDiv == Ev("open", s_div, <<>>, <<>>, FALSE)
\* <br> : not matched, void
ElBr == Ev("open", s_br, <<>>, <<>>, FALSE)

OpenEvents == {ElMatchDiv, ElMatchXY, ElMatchImg, ElDiv, ElBr}

TextEvent == Ev("text", <<>>, <<>>, s_Hi, FALSE)

CommentEvent == Ev("comment", <<>>, <<>>, s_c, FALSE)

EndTagEvent(tagName) == Ev("close", tagName, <<>>, <<>>, FALSE)

IsVoid(tagName) == ToLowerCase(tagName) \in VOID_ELEMENTS

\* el.getAttribute(name): the value, or NULL when the element lacks it.
ElGetAttribute(el, name) ==
  IF \E i \in 1..Len(el.attributes) : el.attributes[i][1] = name
  THEN el.attributes[CHOOSE i \in 1..Len(el.attributes) : el.attributes[i][1] = name][2]
  ELSE NULL

\* -------------------------------------------------------- tag serializer

RECURSIVE AttrsEscaped(_)
\* The loop of _openTag over el.attributes, with the quote escaping.
AttrsEscaped(attributes) ==
  IF attributes = <<>> THEN <<>>
  ELSE <<" ">> \o Head(attributes)[1] \o <<"=", "\"">>
       \o ReplaceQuotes(Head(attributes)[2]) \o <<"\"">>
       \o AttrsEscaped(Tail(attributes))

RECURSIVE AttrsRaw(_)
\* The loop of Collector._openTag (src/htmlparser.js): values are not escaped.
AttrsRaw(attributes) ==
  IF attributes = <<>> THEN <<>>
  ELSE <<" ">> \o Head(attributes)[1] \o <<"=", "\"">> \o Head(attributes)[2] \o <<"\"">>
       \o AttrsRaw(Tail(attributes))

\* _openTag(el) of post-page.js.
_openTag(el) == <<"<">> \o el.tagName \o AttrsEscaped(el.attributes) \o <<">">>

\* Collector._openTag(el) of src/htmlparser.js.
Collector_openTag(el) == <<"<">> \o el.tagName \o AttrsRaw(el.attributes) \o <<">">>

CloseTag(tagName) == <<"<", "/">> \o tagName \o <<">">>

\* ---------------------------------------------------------------- options

\* options = {}
DefaultOptions == [returnInnerHtml |-> FALSE, stripTags |-> FALSE, attributeName |-> NULL]

QueryOptions ==
  [returnInnerHtml : BOOLEAN, stripTags : BOOLEAN, attributeName : {NULL}]

\* The options getAttribute passes: { attributeName: attributeName }.
AttributeOptions ==
  [returnInnerHtml : {FALSE}, stripTags : {FALSE}, attributeName : {s_id}]

Revisions == {"htmlparser", "postpage"}

\* What the runtime does where the repository's code cannot decide it:
\* whether el.onEndTag replaces the callbacks already registered on the element
\* or adds to them, and whether el.onEndTag on an element that has no end tag
\* throws or registers a callback that never runs.
Runtime == [replaces : BOOLEAN, voidThrows : BOOLEAN]

\* ------------------------------------------------ Collector (post-page.js)

\* new Collector(options) of post-page.js; the fields of src/htmlparser.js's
\* Collector (_currentElementBuffer, _currentElementTagName) are kept in the
\* same record and stay NULL in the post-page.js revision, and the other way
\* round.
NewCollector ==
  [results |-> <<>>, isCapturing |-> FALSE, captureBuffer |-> <<>>,
   currentTagName |-> <<>>, curBuffer |-> NULL, curTagName |-> NULL]

\* What one handler invocation leaves: the Collector, the end-tag callbacks
\* registered on the element so far, and whether the handler threw.
Outcome(c, cbs, threw) == [c |-> c, cbs |-> cbs, threw |-> threw]

Callback(kind, tagName) == [kind |-> kind, tagName |-> tagName]

\* el.onEndTag(cb) on an element that has an end tag.
OnEndTag(cbs, cb, rt) == IF rt.replaces THEN <<cb>> ELSE Append(cbs, cb)

\* Collector.element(el) as it would be without the "or an empty string" of the
\* attribute fast path.
CollectorElementPushesNull(c, el, opts, cbs, rt) ==
  IF opts.attributeName # NULL
  THEN Outcome([c EXCEPT !.results = Append(@, ElGetAttribute(el, opts.attributeName))],
               cbs, FALSE)
  ELSE LET c1 == [c EXCEPT !.isCapturing = TRUE,
                           !.captureBuffer = _openTag(el),
                           !.currentTagName = el.tagName]
       IN IF IsVoid(el.tagName)
          THEN Outcome(c1, cbs, rt.voidThrows)
          ELSE Outcome(c1, OnEndTag(cbs, Callback("Collector", <<>>), rt), FALSE)

\* Collector.element(el) as it would be if a match during a capture were
\* added to the open buffer instead of restarting it.
CollectorElementNests(c, el, opts, cbs, rt) ==
  IF opts.attributeName # NULL
  THEN LET attributeValue == ElGetAttribute(el, opts.attributeName)
       IN Outcome([c EXCEPT !.results =
                      Append(@, IF attributeValue # NULL THEN attributeValue ELSE <<>>)],
                  cbs, FALSE)
  ELSE LET c1 == [c EXCEPT !.isCapturing = TRUE,
                           !.captureBuffer = @ \o _openTag(el),
                           !.currentTagName = el.tagName]
       IN IF IsVoid(el.tagName)
          THEN Outcome(c1, cbs, rt.voidThrows)
          ELSE Outcome(c1, OnEndTag(cbs, Callback("Collector", <<>>), rt), FALSE)

\* Collector.element(el) as it would be without the return that ends the
\* attribute fast path.
CollectorElementFallsThrough(c, el, opts, cbs, rt) ==
  LET c0 == IF opts.attributeName # NULL
            THEN LET attributeValue == ElGetAttribute(el, opts.attributeName)
                 IN [c EXCEPT !.results =
                        Append(@, IF attributeValue # NULL THEN attributeValue ELSE <<>>)]
            ELSE c
      c1 == [c0 EXCEPT !.isCapturing = TRUE,
                       !.captureBuffer = _openTag(el),
                       !.currentTagName = el.tagName]
  IN IF IsVoid(el.tagName)
     THEN Outcome(c1, cbs, rt.voidThrows)
     ELSE Outcome(c1, OnEndTag(cbs, Callback("Collector", <<>>), rt), FALSE)

\* Collector.element(el) of post-page.js.
CollectorElement(c, el, opts, cbs, rt) ==
  IF opts.attributeName # NULL
  THEN LET attributeValue == ElGetAttribute(el, opts.attributeName)
       IN Outcome([c EXCEPT !.results =
                      Append(@, IF attributeValue # NULL THEN attributeValue ELSE <<>>)],
                  cbs, FALSE)
  ELSE LET c1 == [c EXCEPT !.isCapturing = TRUE,
                           !.captureBuffer = _openTag(el),
                           !.currentTagName = el.tagName]
       IN IF IsVoid(el.tagName)
          THEN Outcome(c1, cbs, rt.voidThrows)
          ELSE Outcome(c1, OnEndTag(cbs, Callback("Collector", <<>>), rt), FALSE)

\* The callback Collector.element registers with el.onEndTag (post-page.js).
CollectorOnEndTag(c) ==
  LET buf == IF ~IsVoid(c.currentTagName)
             THEN c.captureBuffer \o CloseTag(c.currentTagName)
             ELSE c.captureBuffer
  IN [c EXCEPT !.results = Append(@, buf),
               !.isCapturing = FALSE,
               !.captureBuffer = <<>>,
               !.currentTagName = <<>>]

\* contentHandler.element(el): the wildcard handler of _runRewriter.
ContentHandlerElement(c, el, cbs, rt) ==
  IF c.isCapturing
  THEN LET nestedTagName == el.tagName
           c1 == [c EXCEPT !.captureBuffer = @ \o _openTag(el)]
       IN IF ~IsVoid(nestedTagName)
          THEN Outcome(c1, OnEndTag(cbs, Callback("content", nestedTagName), rt), FALSE)
          ELSE Outcome(c1, cbs, FALSE)
  ELSE Outcome(c, cbs, FALSE)

\* The callback contentHandler.element registers: it appends </nestedTagName>.
ContentHandlerOnEndTag(c, nestedTagName) ==
  [c EXCEPT !.captureBuffer = @ \o CloseTag(nestedTagName)]

\* contentHandler.text(chunk)
ContentHandlerText(c, chunk) ==
  IF c.isCapturing THEN [c EXCEPT !.captureBuffer = @ \o chunk.text] ELSE c

\* contentHandler.comments(comment): the later revision appends the empty
\* template literal.
ContentHandlerComments(c, comment) ==
  IF c.isCapturing THEN [c EXCEPT !.captureBuffer = @ \o <<>>] ELSE c

\* ---------------------------------------------- Collector (htmlparser.js)

\* The option handling of the end-tag callback of src/htmlparser.js:
\* indexOf('>') and lastIndexOf('<') cut the inner HTML, and stripTags is
\* applied whenever it is set.
FinalContentHP(outer, opts) ==
  LET openTagEndIndex == IndexOf(outer, ">")
      closeTagStartIndex == LastIndexOf(outer, "<")
      inner == IF opts.returnInnerHtml
               THEN IF openTagEndIndex # 0 /\ closeTagStartIndex # 0
                       /\ openTagEndIndex < closeTagStartIndex
                    THEN SubSeq(outer, openTagEndIndex + 1, closeTagStartIndex - 1)
                    ELSE <<>>
               ELSE outer
  IN IF opts.stripTags THEN StripTags(inner) ELSE inner

\* Collector.element(el) of src/htmlparser.js.
CollectorElementHP(c, el, opts, cbs, rt) ==
  IF opts.attributeName # NULL
  THEN LET attributeValue == ElGetAttribute(el, opts.attributeName)
       IN Outcome([c EXCEPT !.results =
                      Append(@, IF attributeValue # NULL THEN attributeValue ELSE <<>>)],
                  cbs, FALSE)
  ELSE IF IsVoid(el.tagName)
       THEN LET finalContent == IF opts.returnInnerHtml THEN <<>> ELSE Collector_openTag(el)
            IN Outcome([c EXCEPT !.results = Append(@, finalContent)], cbs, FALSE)
       ELSE Outcome([c EXCEPT !.curBuffer = Collector_openTag(el),
                              !.curTagName = el.tagName],
                    OnEndTag(cbs, Callback("CollectorHP", <<>>), rt), FALSE)

\* The callback Collector.element registers with el.onEndTag (htmlparser.js).
CollectorOnEndTagHP(c, opts) ==
  IF c.curBuffer # NULL
  THEN [c EXCEPT !.results =
                   Append(@, FinalContentHP(c.curBuffer \o CloseTag(c.curTagName), opts)),
                 !.curBuffer = NULL,
                 !.curTagName = NULL]
  ELSE c

\* Collector.text(textChunk) of src/htmlparser.js.
CollectorTextHP(c, textChunk, opts) ==
  IF c.curBuffer # NULL /\ opts.attributeName = NULL
  THEN [c EXCEPT !.curBuffer = @ \o textChunk.text]
  ELSE c

\* ------------------------------------------------- content post-processor

\* The lengths n of a group 1 with which
\* /^<([a-zA-Z0-9]+)([^>]*)>([\s\S]*?)<\/\1>$/i matches content: content
\* starts with '<' and n characters of [a-zA-Z0-9], ends with "</" + those n
\* characters (compared without case) + ">", and that closing tag starts after
\* the first '>'.
RegexNames(content) ==
  { n \in 1..Len(content) :
      /\ Len(content) >= 2 * n + 5
      /\ content[1] = "<"
      /\ \A i \in 2..(n + 1) : content[i] \in AlNum
      /\ IndexOf(content, ">") # 0
      /\ IndexOf(content, ">") < Len(content) - n - 2
      /\ content[Len(content) - n - 2] = "<"
      /\ content[Len(content) - n - 1] = "/"
      /\ content[Len(content)] = ">"
      /\ ToLowerCase(SubSeq(content, Len(content) - n, Len(content) - 1))
           = ToLowerCase(SubSeq(content, 2, n + 1)) }

\* _processContent(content, options) of post-page.js.
_processContent(content, opts) ==
  LET names == RegexNames(content)
      \* group 1 is greedy: the longest name that lets the whole pattern match
      n == CHOOSE k \in names : \A j \in names : j <= k
      inner == IF opts.returnInnerHtml
               THEN IF names # {}
                    THEN SubSeq(content, IndexOf(content, ">") + 1, Len(content) - n - 3)
                    ELSE <<>>
               ELSE content
  IN IF opts.stripTags /\ opts.returnInnerHtml THEN StripTags(inner) ELSE inner

\* ------------------------------------------------------------ dispatcher

\* The state of one scan: the open elements (outermost first) with the
\* end-tag callbacks registered on each, the Collector of the call, and
\* "scan", "done" (stream drained) or "threw" (a handler threw: the promise
\* of rewriterResponse.text() rejects).
Scan(o, c, ph) == [open |-> o, collector |-> c, phase |-> ph]

NewScan == Scan(<<>>, NewCollector, "scan")

\* What the handlers registered by _runRewriter do on an element-open event:
\* post-page.js registers only the Collector in attribute mode, otherwise the
\* wildcard contentHandler first and the Collector second; src/htmlparser.js
\* registers the Collector alone.
OnElement(c, el, r, opts, rt) ==
  IF r = "htmlparser"
  THEN IF el.matches THEN CollectorElementHP(c, el, opts, <<>>, rt)
                     ELSE Outcome(c, <<>>, FALSE)
  ELSE IF opts.attributeName # NULL
       THEN IF el.matches THEN CollectorElement(c, el, opts, <<>>, rt)
                          ELSE Outcome(c, <<>>, FALSE)
       ELSE LET r1 == ContentHandlerElement(c, el, <<>>, rt)
            IN IF el.matches THEN CollectorElement(r1.c, el, opts, r1.cbs, rt)
                             ELSE r1

\* One end-tag callback.
RunCallback(c, cb, opts) ==
  CASE cb.kind = "Collector" -> CollectorOnEndTag(c)
    [] cb.kind = "content" -> ContentHandlerOnEndTag(c, cb.tagName)
    [] cb.kind = "CollectorHP" -> CollectorOnEndTagHP(c, opts)

RECURSIVE RunCallbacks(_, _, _)
\* The end-tag callbacks of an element, in the order they were registered.
RunCallbacks(c, cbs, opts) ==
  IF cbs = <<>> THEN c
  ELSE RunCallbacks(RunCallback(c, Head(cbs), opts), Tail(cbs), opts)

\* Text and comment handlers run for content inside an element matched by the
\* selector they were registered with: "*" matches every element, the target
\* selector the matched ones.
InsideWildcard(o) == o # <<>>

InsideTarget(o) == \E i \in 1..Len(o) : o[i].matches

\* What the handlers do on a text run.
OnText(c, o, chunk, r, opts) ==
  IF r = "htmlparser"
  THEN IF InsideTarget(o) THEN CollectorTextHP(c, chunk, opts) ELSE c
  ELSE IF opts.attributeName = NULL /\ InsideWildcard(o)
       THEN ContentHandlerText(c, chunk)
       ELSE c

\* What the handlers do on a comment: only contentHandler has a comments
\* handler.
OnComment(c, o, comment, r, opts) ==
  IF r = "postpage" /\ opts.attributeName = NULL /\ InsideWildcard(o)
  THEN ContentHandlerComments(c, comment)
  ELSE c

\* The dispatcher delivers one event of the document to the handlers.
Dispatch(s, ev, r, opts, rt) ==
  CASE ev.type = "open" ->
         LET res == OnElement(s.collector, ev, r, opts, rt)
         IN Scan(IF IsVoid(ev.tagName) THEN s.open
                 ELSE Append(s.open, [tagName |-> ev.tagName, matches |-> ev.matches,
                                      cbs |-> res.cbs]),
                 res.c,
                 IF res.threw THEN "threw" ELSE "scan")
    [] ev.type = "text" ->
         Scan(s.open, OnText(s.collector, s.open, ev, r, opts), s.phase)
    [] ev.type = "comment" ->
         Scan(s.open, OnComment(s.collector, s.open, ev, r, opts), s.phase)
    [] ev.type = "close" ->
         Scan(SubSeq(s.open, 1, Len(s.open) - 1),
              RunCallbacks(s.collector, s.open[Len(s.open)].cbs, opts),
              s.phase)

RECURSIVE Replay(_, _, _, _, _)
\* A whole scan: _runRewriter feeds the document and drains the stream.  A
\* handler that throws ends the scan.
Replay(s, events, r, opts, rt) ==
  IF s.phase = "threw" THEN s
  ELSE IF events = <<>> THEN Scan(s.open, s.collector, "done")
  ELSE Replay(Dispatch(s, Head(events), r, opts, rt), Tail(events), r, opts, rt)

\* ----------------------------------------------------------------- facade

\* collector.results.map(content => _processContent(content, options))
MapProcess(results, opts) == [i \in 1..Len(results) |-> _processContent(results[i], opts)]

\* What querySelectorAll returns once its scan s has ended.
QuerySelectorAllOf(s, r, opts) ==
  IF s.phase = "threw" THEN THROWN
  ELSE IF r = "postpage" THEN MapProcess(s.collector.results, opts)
  ELSE s.collector.results

\* What querySelector returns once its scan s has ended.
QuerySelectorOf(s, r, opts) ==
  IF s.phase = "threw" THEN THROWN
  ELSE IF s.collector.results = <<>> THEN NULL
  ELSE IF r = "postpage" THEN _processContent(s.collector.results[1], opts)
  ELSE s.collector.results[1]

\* What getAttribute returns once its scan s has ended.
GetAttributeOf(s) ==
  IF s.phase = "threw" THEN THROWN
  ELSE IF s.collector.results # <<>> THEN s.collector.results[1] ELSE NULL

\* querySelector(html, selector, options) on a non-blank document.
querySelector(events, r, opts, rt) == QuerySelectorOf(Replay(NewScan, events, r, opts, rt), r, opts)

\* querySelectorAll(html, selector, options) on a non-blank document.
querySelectorAll(events, r, opts, rt) ==
  QuerySelectorAllOf(Replay(NewScan, events, r, opts, rt), r, opts)

\* ------------------------------------------------------------ write path

s_a == <<"a">>
s_class == <<"c", "l", "a", "s", "s">>
s_datax == <<"d", "a", "t", "a", "-", "x">>
s_hr == <<"<", "h", "r", ">">>

\* <a class="old"> : matched
ElMatchA == Ev("open", s_a, << <<s_class, <<"o", "l", "d">> >> >>, <<>>, TRUE)

TextT == Ev("text", <<>>, <<>>, <<"t">>, FALSE)

WriteOpenEvents == {ElMatchA, ElMatchDiv, ElMatchImg, ElDiv}

\* The element object a handler receives: the open tag and the mutations the
\* handler asked the runtime for.
Element(ev) ==
  [tagName |-> ev.tagName, attributes |-> ev.attributes, matches |-> ev.matches,
   removed |-> FALSE, replacement |-> <<>>, before |-> <<>>, prepended |-> <<>>,
   appended |-> <<>>, after |-> <<>>]

\* element.remove()
ElRemove(element) == [element EXCEPT !.removed = TRUE]

\* element.after(newHtml, { html: true }) called in place of replace: the
\* element stays and newHtml follows it.
ElReplaceAsAfter(element, newHtml) == [element EXCEPT !.after = newHtml \o @]

\* element.replace(newHtml, { html: true })
ElReplace(element, newHtml) == [element EXCEPT !.removed = TRUE, !.replacement = newHtml]

\* element.removeAttribute(key)
ElRemoveAttribute(element, key) ==
  [element EXCEPT !.attributes = SelectSeq(@, LAMBDA a : a[1] # key)]

\* element.setAttribute(key, value): an attribute the element has keeps its
\* place, a new one goes last.
ElSetAttribute(element, key, value) ==
  [element EXCEPT !.attributes =
     IF \E i \in 1..Len(@) : @[i][1] = key
     THEN [i \in 1..Len(@) |-> IF @[i][1] = key THEN <<key, value>> ELSE @[i]]
     ELSE Append(@, <<key, value>>)]

\* element.before(newHtml, { html: true })
ElBefore(element, newHtml) == [element EXCEPT !.before = @ \o newHtml]

\* element.after(newHtml, { html: true })
ElAfter(element, newHtml) == [element EXCEPT !.after = newHtml \o @]

\* element.prepend(newHtml, { html: true }): no effect on a void element.
ElPrepend(element, newHtml) ==
  IF IsVoid(element.tagName) THEN element ELSE [element EXCEPT !.prepended = newHtml \o @]

\* element.append(newHtml, { html: true }): no effect on a void element.
ElAppend(element, newHtml) ==
  IF IsVoid(element.tagName) THEN element ELSE [element EXCEPT !.appended = @ \o newHtml]

MutationOptions == [firstOnly : BOOLEAN]

Handler(kind, newHtml, attributes, position, opts) ==
  [kind |-> kind, newHtml |-> newHtml, attributes |-> attributes, position |-> position,
   firstOnly |-> opts.firstOnly, alreadyActed |-> FALSE]

\* new ElementHandler(newHtml, options): newHtml is null for a deletion.
ElementHandler(newHtml, opts) == Handler("ElementHandler", newHtml, <<>>, "", opts)

\* new AttributeHandler(attributes, options): attributes as Object.entries
\* lists them.
AttributeHandler(attributes, opts) == Handler("AttributeHandler", <<>>, attributes, "", opts)

\* new InsertHandler(position, newHtml, options)
InsertHandler(position, newHtml, opts) == Handler("InsertHandler", newHtml, <<>>, position, opts)

\* What a handler invocation leaves: the handler and the element.
Handled(h, element) == [h |-> h, el |-> element]

\* ElementHandler.element(element) as it would be without the firstOnly gate.
ElementHandlerElementUngated(h, element) ==
  Handled([h EXCEPT !.alreadyActed = TRUE],
          IF h.newHtml = NULL THEN ElRemove(element) ELSE ElReplace(element, h.newHtml))

\* ElementHandler.element(element)
ElementHandlerElement(h, element) ==
  IF h.firstOnly /\ h.alreadyActed
  THEN Handled(h, element)
  ELSE Handled([h EXCEPT !.alreadyActed = TRUE],
               IF h.newHtml = NULL THEN ElRemove(element)
                                   ELSE ElReplace(element, h.newHtml))

RECURSIVE SetEntries(_, _)
\* The loop of AttributeHandler.element over Object.entries(this.attributes).
SetEntries(element, entries) ==
  IF entries = <<>> THEN element
  ELSE SetEntries(IF Head(entries)[2] = NULL
                  THEN ElRemoveAttribute(element, Head(entries)[1])
                  ELSE ElSetAttribute(element, Head(entries)[1], Head(entries)[2]),
                  Tail(entries))

\* AttributeHandler.element(element) as it would be if a null value were
\* skipped instead of removing the attribute.
AttributeHandlerElementSkipsNull(h, element) ==
  IF h.firstOnly /\ h.alreadyActed
  THEN Handled(h, element)
  ELSE Handled([h EXCEPT !.alreadyActed = TRUE],
               SetEntries(element, SelectSeq(h.attributes, LAMBDA e : e[2] # NULL)))

\* AttributeHandler.element(element)
AttributeHandlerElement(h, element) ==
  IF h.firstOnly /\ h.alreadyActed
  THEN Handled(h, element)
  ELSE Handled([h EXCEPT !.alreadyActed = TRUE], SetEntries(element, h.attributes))

\* InsertHandler.element(element) as it would be if the gate read the acted
\* flag alone.
InsertHandlerElementGatedAlways(h, element) ==
  IF h.alreadyActed
  THEN Handled(h, element)
  ELSE Handled([h EXCEPT !.alreadyActed = TRUE],
               CASE h.position = "beforebegin" -> ElBefore(element, h.newHtml)
                 [] h.position = "afterbegin" -> ElPrepend(element, h.newHtml)
                 [] h.position = "beforeend" -> ElAppend(element, h.newHtml)
                 [] h.position = "afterend" -> ElAfter(element, h.newHtml)
                 [] OTHER -> element)

\* InsertHandler.element(element) as it would be with the two inner
\* positions exchanged.
InsertHandlerElementInnerSwapped(h, element) ==
  IF h.firstOnly /\ h.alreadyActed
  THEN Handled(h, element)
  ELSE Handled([h EXCEPT !.alreadyActed = TRUE],
               CASE h.position = "beforebegin" -> ElBefore(element, h.newHtml)
                 [] h.position = "afterbegin" -> ElAppend(element, h.newHtml)
                 [] h.position = "beforeend" -> ElPrepend(element, h.newHtml)
                 [] h.position = "afterend" -> ElAfter(element, h.newHtml)
                 [] OTHER -> element)

\* InsertHandler.element(element)
InsertHandlerElement(h, element) ==
  IF h.firstOnly /\ h.alreadyActed
  THEN Handled(h, element)
  ELSE Handled([h EXCEPT !.alreadyActed = TRUE],
               CASE h.position = "beforebegin" -> ElBefore(element, h.newHtml)
                 [] h.position = "afterbegin" -> ElPrepend(element, h.newHtml)
                 [] h.position = "beforeend" -> ElAppend(element, h.newHtml)
                 [] h.position = "afterend" -> ElAfter(element, h.newHtml)
                 [] OTHER -> element)

\* new HTMLRewriter().on(selector, handler): the handler runs on each match.
OnMatch(h, element) ==
  IF ~element.matches THEN Handled(h, element)
  ELSE CASE h.kind = "ElementHandler" -> ElementHandlerElement(h, element)
         [] h.kind = "AttributeHandler" -> AttributeHandlerElement(h, element)
         [] h.kind = "InsertHandler" -> InsertHandlerElement(h, element)

\* The open tag the runtime writes for an element.
StartTag(element) ==
  <<"<">> \o element.tagName \o AttrsEscaped(element.attributes) \o <<">">>

\* What the runtime writes at the open tag of an element after its handlers.
StartOutput(element) ==
  element.before
    \o (IF element.removed THEN element.replacement
        ELSE StartTag(element) \o element.prepended)
    \o (IF IsVoid(element.tagName) THEN element.after ELSE <<>>)

\* What the runtime writes at the end tag of an element.
EndOutput(element) ==
  (IF element.removed THEN <<>> ELSE element.appended \o CloseTag(element.tagName))
    \o element.after

\* Content inside a removed or replaced element is not written.
Suppressed(o) == \E i \in 1..Len(o) : o[i].removed

\* deleteElements(html, selector, options)
DeleteHandlers == {ElementHandler(NULL, o) : o \in MutationOptions}

\* replaceElements(html, selector, newHtml, options)
ReplaceHandlers == {ElementHandler(s_hr, o) : o \in MutationOptions}

\* { class: null, "data-x": "1" } and { id: "n" }
AttributeMaps ==
  { << <<s_class, NULL>>, <<s_datax, <<"1">> >> >>, << <<s_id, <<"n">> >> >> }

\* setAttributes(html, selector, attributes, options)
SetAttributeHandlers ==
  {AttributeHandler(m, o) : m \in AttributeMaps, o \in MutationOptions}

Positions == {"beforebegin", "afterbegin", "beforeend", "afterend"}

\* insertHtml(html, selector, position, newHtml, options)
InsertHandlers == {InsertHandler(p, s_hr, o) : p \in Positions, o \in MutationOptions}

NoHandler == Handler("none", <<>>, <<>>, "", [firstOnly |-> FALSE])

\* The state of a write-path scan: the open elements as their handlers left
\* them, the handler of the call, and the output written so far.
WScan(o, h, written) == [open |-> o, handler |-> h, out |-> written]

\* The markup of a comment.
CommentMarkup(text) == <<"<", "!", "-", "-">> \o text \o <<"-", "-", ">">>

\* rewriter.transform on one event of the document: the handler runs on a
\* matching open tag, and the runtime writes the event as the handler left it.
WriteDispatch(s, ev) ==
  CASE ev.type = "open" ->
         LET r == OnMatch(s.handler, Element(ev))
         IN WScan(IF IsVoid(ev.tagName) THEN s.open ELSE Append(s.open, r.el),
                  r.h,
                  IF Suppressed(s.open) THEN s.out ELSE s.out \o StartOutput(r.el))
    [] ev.type = "text" ->
         WScan(s.open, s.handler, IF Suppressed(s.open) THEN s.out ELSE s.out \o ev.text)
    [] ev.type = "comment" ->
         WScan(s.open, s.handler,
               IF Suppressed(s.open) THEN s.out ELSE s.out \o CommentMarkup(ev.text))
    [] ev.type = "close" ->
         IF s.open = <<>> THEN s
         ELSE LET rest == SubSeq(s.open, 1, Len(s.open) - 1)
              IN WScan(rest, s.handler,
                       IF Suppressed(rest) THEN s.out
                       ELSE s.out \o EndOutput(s.open[Len(s.open)]))

RECURSIVE WriteReplay(_, _)
\* await transformedResponse.text(): every event of the document, in order.
WriteReplay(s, events) ==
  IF events = <<>> THEN s
  ELSE WriteReplay(WriteDispatch(s, Head(events)), Tail(events))

\* The text a write-path call returns for a document it scans with handler h.
Transformed(events, h) == WriteReplay(WScan(<<>>, h, <<>>), events).out

\* ----------------------------------------------------- the scan (read path)

VARIABLES
  rev,        \* which revision of the engine runs the call
  options,    \* the options argument of the facade call
  runtime,    \* how the runtime behaves where the code cannot decide it
  html,       \* the events of the document delivered so far, in source order
  open,       \* the open elements of the scan, with their end-tag callbacks
  collector,  \* the Collector instance of the call
  phase,      \* "scan", "done" or "threw"
  handler,    \* the mutation handler of a write-path call
  out         \* the transformed document written so far

VARIABLES
  invocation, \* the facade call being made: the function and its arguments
  returned,   \* what that call gave its caller
  heap,       \* the Collector and handler instances of the calls in progress
  calls       \* the facade calls in progress, each with its own scan

VARIABLES
  cache,      \* caches.default: the response stored under the cache key, if any
  helper      \* the cacheHelper call: its position, arguments and locals

VARIABLES
  clock,         \* Date.now(), in milliseconds
  inMemoryCache, \* the worker's inMemoryCache object: key -> { value, ts }
  kv,            \* the GALLERY KV namespace: key -> value
  kvCall         \* the getCachedKV call: its position, arguments and locals

VARIABLES
  meta,       \* the getMetaDataWithTimeout call: its promises and its timer
  sync,       \* a run of a KV sync script: files, hash cache, uploads, KV
  worker      \* the translate worker: its module-level provider, its requests

scanVars == <<rev, options, runtime, html, open, collector, phase, handler, out>>

facadeVars == <<invocation, returned>>

callVars == <<heap, calls>>

helperVars == <<cache, helper>>

kvVars == <<clock, inMemoryCache, kv, kvCall>>

jobVars == <<meta, sync, worker>>

vars == <<scanVars, facadeVars, callVars, helperVars, kvVars, jobVars>>

\* What a single scan leaves alone.
notScanVars == <<facadeVars, callVars, helperVars, kvVars, jobVars>>

\* What a facade call looked at as a whole leaves alone.
notFacadeVars == <<scanVars, callVars, helperVars, kvVars, jobVars>>

\* What the calls in progress together leave alone.
notCallVars == <<scanVars, facadeVars, helperVars, kvVars, jobVars>>

\* undefined where a Response is expected: what cache.match resolves to on a
\* miss.
NoResponse == [status |-> 0, from |-> "none"]

\* No cacheHelper call is made.
HelperRest ==
  /\ cache = NoResponse
  /\ helper = [pc |-> "rest"]

\* No getCachedKV call is made.
KvRest ==
  /\ clock = 0
  /\ inMemoryCache = <<>>
  /\ kv = <<>>
  /\ kvCall = [pc |-> "rest"]

\* No getMetaDataWithTimeout call is made.
MetaRest == meta = [pc |-> "rest"]

\* No KV sync script runs.
SyncRest == sync = [pc |-> "rest"]

\* The translate worker receives no request.
WorkerRest == worker = [pc |-> "rest"]

\* None of the three is in use.
JobRest == MetaRest /\ SyncRest /\ WorkerRest

\* No facade call has been made.
NoInvocation == [fn |-> "none"]

\* The variables the single scan does not use, at rest.
NotScanInit ==
  /\ invocation = NoInvocation
  /\ returned = NoInvocation
  /\ heap = <<>>
  /\ calls = <<>>
  /\ HelperRest
  /\ KvRest
  /\ JobRest

\* A text run is one maximal run: no text event follows a text event.
LastIsText == html # <<>> /\ html[Len(html)].type = "text"

\* Room left for n more events such that every open element can still close.
Room(n) == Len(html) + Len(open) + n <= MaxLen

\* The runtime's choices are read only by the capture mode of post-page.js:
\* src/htmlparser.js and the attribute mode register at most one callback per
\* element and none on a void element.
Init ==
  /\ rev \in Revisions
  /\ options \in QueryOptions \cup AttributeOptions
  /\ runtime \in IF rev = "postpage" /\ options.attributeName = NULL
                 THEN Runtime
                 ELSE {[replaces |-> FALSE, voidThrows |-> FALSE]}
  /\ html = <<>>
  /\ open = <<>>
  /\ collector = NewCollector
  /\ phase = "scan"
  /\ handler = NoHandler
  /\ out = <<>>
  /\ NotScanInit

\* The dispatcher delivers the next event ev of the document.
Deliver(ev) ==
  LET d == Dispatch(Scan(open, collector, phase), ev, rev, options, runtime)
  IN /\ html' = Append(html, ev)
     /\ open' = d.open
     /\ collector' = d.collector
     /\ phase' = d.phase
     /\ UNCHANGED <<rev, options, runtime, handler, out>>
     /\ UNCHANGED notScanVars

\* The dispatcher reaches an opening tag.
ElementOpen ==
  /\ phase = "scan"
  /\ \E el \in OpenEvents :
       /\ IF IsVoid(el.tagName) THEN Room(1) ELSE Room(2)
       /\ Deliver(el)

\* The dispatcher reaches a text run.
Text ==
  /\ phase = "scan"
  /\ Room(1)
  /\ ~LastIsText
  /\ Deliver(TextEvent)

\* The dispatcher reaches a comment.
Comment ==
  /\ phase = "scan"
  /\ Room(1)
  /\ Deliver(CommentEvent)

\* The dispatcher reaches the end tag of the innermost open element.
EndTag ==
  /\ phase = "scan"
  /\ open # <<>>
  /\ Deliver(EndTagEvent(open[Len(open)].tagName))

\* The input is exhausted: rewriterResponse.text() resolves.
Drain ==
  /\ phase = "scan"
  /\ html # <<>>
  /\ open = <<>>
  /\ phase' = "done"
  /\ UNCHANGED <<rev, options, runtime, html, open, collector, handler, out>>
  /\ UNCHANGED notScanVars

\* The input is exhausted while elements are still open (an unbalanced
\* document): no end-tag callback of theirs runs, rewriterResponse.text()
\* resolves.
Truncated ==
  /\ phase = "scan"
  /\ open # <<>>
  /\ phase' = "eof"
  /\ UNCHANGED <<rev, options, runtime, html, open, collector, handler, out>>
  /\ UNCHANGED notScanVars

Next == ElementOpen \/ Text \/ Comment \/ EndTag \/ Drain \/ Truncated

Spec == Init /\ [][Next]_vars

\* ---------------------------------------------------- the scan (write path)

\* A write-path call: one handler, created for the call, registered with the
\* target selector.
InitW ==
  /\ rev = "postpage"
  /\ options = DefaultOptions
  /\ runtime = [replaces |-> FALSE, voidThrows |-> FALSE]
  /\ html = <<>>
  /\ open = <<>>
  /\ collector = NewCollector
  /\ phase = "scan"
  /\ handler \in DeleteHandlers \cup ReplaceHandlers \cup SetAttributeHandlers
                  \cup InsertHandlers
  /\ out = <<>>
  /\ NotScanInit

\* The text written for a piece of the document, unless it lies inside a
\* removed element.
Write(piece) == IF Suppressed(open) THEN out ELSE out \o piece

\* The dispatcher reaches an opening tag: the handler runs if the selector
\* matches, then the runtime writes the tag as the handler left it.
WElementOpen ==
  /\ phase = "scan"
  /\ \E ev \in WriteOpenEvents :
       LET r == OnMatch(handler, Element(ev))
       IN /\ IF IsVoid(ev.tagName) THEN Room(1) ELSE Room(2)
          /\ html' = Append(html, ev)
          /\ handler' = r.h
          /\ out' = Write(StartOutput(r.el))
          /\ open' = IF IsVoid(ev.tagName) THEN open ELSE Append(open, r.el)
  /\ UNCHANGED <<rev, options, runtime, collector, phase>>
  /\ UNCHANGED notScanVars

\* The dispatcher reaches a text run.
WText ==
  /\ phase = "scan"
  /\ Room(1)
  /\ ~LastIsText
  /\ html' = Append(html, TextT)
  /\ out' = Write(TextT.text)
  /\ UNCHANGED <<rev, options, runtime, open, collector, phase, handler>>
  /\ UNCHANGED notScanVars

\* The dispatcher reaches a comment.
WComment ==
  /\ phase = "scan"
  /\ Room(1)
  /\ html' = Append(html, CommentEvent)
  /\ out' = Write(<<"<", "!", "-", "-">> \o CommentEvent.text \o <<"-", "-", ">">>)
  /\ UNCHANGED <<rev, options, runtime, open, collector, phase, handler>>
  /\ UNCHANGED notScanVars

\* The dispatcher reaches the end tag of the innermost open element.
WEndTag ==
  /\ phase = "scan"
  /\ open # <<>>
  /\ html' = Append(html, EndTagEvent(open[Len(open)].tagName))
  /\ out' = IF Suppressed(SubSeq(open, 1, Len(open) - 1)) THEN out
            ELSE out \o EndOutput(open[Len(open)])
  /\ open' = SubSeq(open, 1, Len(open) - 1)
  /\ UNCHANGED <<rev, options, runtime, collector, phase, handler>>
  /\ UNCHANGED notScanVars

\* The input is exhausted: transformedResponse.text() resolves with out.
WDrain ==
  /\ phase = "scan"
  /\ html # <<>>
  /\ open = <<>>
  /\ phase' = "done"
  /\ UNCHANGED <<rev, options, runtime, html, open, collector, handler, out>>
  /\ UNCHANGED notScanVars

NextW == WElementOpen \/ WText \/ WComment \/ WEndTag \/ WDrain

SpecW == InitW /\ [][NextW]_vars

\* ------------------------------------------- reference: the document tree

RECURSIVE RefAttributes(_)
\* name="value" pairs in source order, a double quote written as &quot;
RefAttributes(attrs) ==
  IF attrs = <<>> THEN <<>>
  ELSE LET v == Head(attrs)[2]
           esc == Concat([i \in 1..Len(v) |->
                            IF v[i] = "\"" THEN <<"&", "q", "u", "o", "t", ";">> ELSE <<v[i]>>])
       IN <<" ">> \o Head(attrs)[1] \o <<"=", "\"">> \o esc \o <<"\"">>
          \o RefAttributes(Tail(attrs))

\* The markup of one event.
Serialized(ev) ==
  CASE ev.type = "open" -> <<"<">> \o ev.tagName \o RefAttributes(ev.attributes) \o <<">">>
    [] ev.type = "text" -> ev.text
    [] ev.type = "comment" -> <<"<", "!", "-", "-">> \o ev.text \o <<"-", "-", ">">>
    [] ev.type = "close" -> <<"<", "/">> \o ev.tagName \o <<">">>

IsOpenTag(doc, i) == doc[i].type = "open"

IsVoidTag(doc, i) == IsOpenTag(doc, i) /\ doc[i].tagName \in VOID_ELEMENTS

\* Number of elements open after the first k events of doc.
Depth(doc, k) ==
  Cardinality({j \in 1..k : IsOpenTag(doc, j) /\ ~IsVoidTag(doc, j)})
    - Cardinality({j \in 1..k : doc[j].type = "close"})

\* The index of the end tag of the element opened at i (i itself for a void
\* element, 0 while the element is open).
CloseIndex(doc, i) ==
  IF IsVoidTag(doc, i) THEN i
  ELSE LET ends == {j \in (i + 1)..Len(doc) :
                      doc[j].type = "close" /\ Depth(doc, j) = Depth(doc, i) - 1}
       IN IF ends = {} THEN 0 ELSE CHOOSE j \in ends : \A k \in ends : j <= k

\* The outer HTML of the element opened at i: its events, serialized in order.
OuterHTML(doc, i) ==
  Concat([k \in 1..(CloseIndex(doc, i) - i + 1) |-> Serialized(doc[i + k - 1])])

\* The indexes of the open tags the target selector matches.
Matches(doc) == {i \in 1..Len(doc) : IsOpenTag(doc, i) /\ doc[i].matches}

\* The n-th match in source order.
NthMatch(doc, n) ==
  CHOOSE i \in Matches(doc) : Cardinality({j \in Matches(doc) : j < i}) = n - 1

\* The outer HTML of every match, in the order of the opening tags.
OuterHTMLs(doc) == [n \in 1..Cardinality(Matches(doc)) |-> OuterHTML(doc, NthMatch(doc, n))]

\* Some match lies inside another match.
NestedMatches(doc) ==
  \E i, j \in Matches(doc) : i < j /\ (CloseIndex(doc, i) = 0 \/ j < CloseIndex(doc, i))

VoidMatches(doc) == \E i \in Matches(doc) : IsVoidTag(doc, i)

HasComments(doc) == \E i \in 1..Len(doc) : doc[i].type = "comment"

\* The scan of the call as it stands.
Current == Scan(open, collector, phase)

Ended == phase \in {"done", "threw"}

\* ------------------------------------------------------------------ claims

\* C1: for a well-formed document whose matches are not nested in one another,
\* each result of querySelectorAll with default options is the exact
\* serialization of the matched non-void element: open tag with attributes in
\* source order, every descendant open tag, text run, comment and closing tag
\* in document order, then its own closing tag.  Stated for the post-page.js
\* revision on documents without void matches.
C1_ExactOuterHtml ==
  (/\ rev = "postpage"
   /\ phase = "done"
   /\ options = DefaultOptions
   /\ ~NestedMatches(html)
   /\ ~VoidMatches(html))
  => QuerySelectorAllOf(Current, rev, options) = OuterHTMLs(html)

\* C2: querySelectorAll lists the matches in the order of their opening tags,
\* also when one match is nested inside another: the i-th result is the
\* content of the i-th matching element.  Stated on documents without comments
\* and without void matches.
C2_SourceOrder ==
  (/\ rev = "postpage"
   /\ phase = "done"
   /\ options = DefaultOptions
   /\ ~HasComments(html)
   /\ ~VoidMatches(html))
  => LET got == QuerySelectorAllOf(Current, rev, options)
     IN /\ Len(got) = Cardinality(Matches(html))
        /\ \A i \in 1..Len(got) : got[i] = OuterHTML(html, NthMatch(html, i))

\* C3: when the target selector matches a void element the open handler
\* finalizes at once: the serialized open tag, with no closing tag, is pushed
\* to results during the open event and isCapturing is not set, so that
\* querySelector on <img src="x.png"> with selector img returns the tag.
C3_VoidFinalizesAtOnce ==
  (/\ options = DefaultOptions
   /\ html # <<>>
   /\ IsVoidTag(html, Len(html))
   /\ html[Len(html)].matches)
  => /\ phase # "threw"
     /\ collector.results # <<>>
     /\ collector.results[Len(collector.results)] = Serialized(html[Len(html)])
     /\ ~collector.isCapturing
     /\ (Len(html) = 1 /\ Ended => QuerySelectorOf(Current, rev, options) = Serialized(html[1]))

\* C4: when the selector matches a void element, querySelector with
\* returnInnerHtml:true returns the empty string, not null and not the tag.
C4_VoidInnerHtmlEmpty ==
  (/\ Ended
   /\ options.attributeName = NULL
   /\ options.returnInnerHtml
   /\ Matches(html) # {}
   /\ IsVoidTag(html, NthMatch(html, 1)))
  => QuerySelectorOf(Current, rev, options) = <<>>

\* C5: stripTags has no effect unless returnInnerHtml is true:
\* querySelector(doc, sel, {stripTags:true}) equals querySelector(doc, sel, {}).
C5_StripTagsAloneIsNoOp ==
  (phase = "done" /\ options = DefaultOptions)
  => querySelector(html, rev, [DefaultOptions EXCEPT !.stripTags = TRUE], runtime)
       = querySelector(html, rev, DefaultOptions, runtime)

\* The outer HTML without its leading open tag (through the first '>') and
\* without its last closing tag; empty when there is no such pair.
WithoutOuterPair(outer) ==
  LET gt == IndexOf(outer, ">")
      lt == LastIndexOf(outer, "<")
  IN IF gt # 0 /\ lt # 0 /\ gt < lt /\ lt < Len(outer) /\ outer[lt + 1] = "/"
     THEN SubSeq(outer, gt + 1, lt - 1)
     ELSE <<>>

\* C6: for every non-void matched element, whatever its tag name, the result
\* with returnInnerHtml:true equals the default outer-HTML result without its
\* leading open tag and its last closing tag.  Stated on documents whose
\* matches are neither nested nor void.
C6_InnerIsOuterWithoutPair ==
  (/\ phase = "done"
   /\ options = [DefaultOptions EXCEPT !.returnInnerHtml = TRUE]
   /\ Matches(html) # {}
   /\ ~NestedMatches(html)
   /\ ~VoidMatches(html))
  => QuerySelectorOf(Current, rev, options)
       = WithoutOuterPair(querySelector(html, rev, DefaultOptions, runtime))

IsDeletion(h) == h.kind = "ElementHandler" /\ h.newHtml = NULL

IsReplacement(h) == h.kind = "ElementHandler" /\ h.newHtml # NULL

\* The index of the open tag that the end tag at k closes.
OpenIndex(doc, k) == CHOOSE i \in 1..k : IsOpenTag(doc, i) /\ ~IsVoidTag(doc, i) /\ CloseIndex(doc, i) = k

\* The first match alone under firstOnly, else every match.
ActedOn(doc, h) ==
  IF h.firstOnly
  THEN IF Matches(doc) = {} THEN {} ELSE {NthMatch(doc, 1)}
  ELSE Matches(doc)

MapHas(map, key) == \E i \in 1..Len(map) : map[i][1] = key

MapGet(map, key) == map[CHOOSE i \in 1..Len(map) : map[i][1] = key][2]

\* The attributes of an element after setAttributes with map: attributes
\* mapped to null are gone, the other mapped ones have the mapped value (in
\* place when the element had them, else added after the others), the rest is
\* as it was.
RefAttributesAfter(attrs, map) ==
  LET kept == SelectSeq(attrs, LAMBDA a : ~(MapHas(map, a[1]) /\ MapGet(map, a[1]) = NULL))
      same == [i \in 1..Len(kept) |->
                 IF MapHas(map, kept[i][1]) THEN <<kept[i][1], MapGet(map, kept[i][1])>>
                 ELSE kept[i]]
      added == SelectSeq(map, LAMBDA e :
                 e[2] # NULL /\ ~(\E i \in 1..Len(attrs) : attrs[i][1] = e[1]))
  IN same \o added

RECURSIVE RefRewrite(_, _, _, _)
\* The text of doc from event k on, with the action of handler h performed on
\* the elements opened at the indexes in T and on nothing else.
RefRewrite(doc, k, h, T) ==
  IF k > Len(doc) THEN <<>>
  ELSE LET ev == doc[k]
           rest == RefRewrite(doc, k + 1, h, T)
       IN IF IsOpenTag(doc, k) /\ k \in T
          THEN CASE IsDeletion(h) -> RefRewrite(doc, CloseIndex(doc, k) + 1, h, T)
                 [] IsReplacement(h) ->
                      h.newHtml \o RefRewrite(doc, CloseIndex(doc, k) + 1, h, T)
                 [] h.kind = "AttributeHandler" ->
                      Serialized([ev EXCEPT !.attributes = RefAttributesAfter(@, h.attributes)])
                        \o rest
                 [] h.kind = "InsertHandler" /\ h.position = "beforebegin" ->
                      h.newHtml \o Serialized(ev) \o rest
                 [] h.kind = "InsertHandler" /\ h.position = "afterbegin" ->
                      Serialized(ev) \o (IF IsVoidTag(doc, k) THEN <<>> ELSE h.newHtml) \o rest
                 [] h.kind = "InsertHandler" /\ h.position = "afterend" ->
                      Serialized(ev) \o (IF IsVoidTag(doc, k) THEN h.newHtml ELSE <<>>) \o rest
                 [] OTHER -> Serialized(ev) \o rest
          ELSE IF ev.type = "close" /\ OpenIndex(doc, k) \in T /\ h.kind = "InsertHandler"
          THEN CASE h.position = "beforeend" -> h.newHtml \o Serialized(ev) \o rest
                 [] h.position = "afterend" -> Serialized(ev) \o h.newHtml \o rest
                 [] OTHER -> Serialized(ev) \o rest
          ELSE Serialized(ev) \o rest

\* C8: with firstOnly set, each mutation handler performs its action on the
\* first match in document order and on no later match; the acted flag is set
\* from the first match on and never cleared.  deleteElements with firstOnly
\* removes exactly the first matched element.
C8_FirstOnlyActsOnce ==
  handler.firstOnly =>
    /\ handler.alreadyActed = (Matches(html) # {})
    /\ phase = "done" =>
         out = RefRewrite(html, 1, handler,
                          IF Matches(html) = {} THEN {} ELSE {NthMatch(html, 1)})

\* C8 witness: a firstOnly deletion over two sibling matches has ended, and
\* the document left is the second match, untouched.
C8_Witness ==
  /\ phase = "done"
  /\ handler.firstOnly
  /\ IsDeletion(handler)
  /\ Cardinality(Matches(html)) = 2
  /\ ~NestedMatches(html)
  /\ out = OuterHTML(html, NthMatch(html, 2))

\* C9: with firstOnly unset every match is acted on, whatever the acted flag.
C9_EveryMatchActedOn ==
  (~handler.firstOnly /\ handler.kind # "none" /\ phase = "done")
  => out = RefRewrite(html, 1, handler, Matches(html))

\* C9 witness: a call without firstOnly has ended on a document with two
\* matches, the flag is set, and the second match was acted on as well.
C9_Witness ==
  /\ phase = "done"
  /\ ~handler.firstOnly
  /\ handler.kind = "InsertHandler"
  /\ handler.alreadyActed
  /\ Cardinality(Matches(html)) = 2
  /\ out # RefRewrite(html, 1, handler, {NthMatch(html, 1)})

\* C10: setAttributes, on each acted-on match, removes every attribute mapped
\* to null and sets every other mapped attribute, and changes nothing else:
\* other attributes, content and descendants are unchanged.
\* {class: null, "data-x": "1"} turns <a class="old">t</a> into
\* <a data-x="1">t</a>.
C10_SetAttributesOnly ==
  (handler.kind = "AttributeHandler" /\ phase = "done")
  => /\ out = Concat([k \in 1..Len(html) |->
                        IF k \in ActedOn(html, handler)
                        THEN Serialized([html[k] EXCEPT !.attributes =
                                           RefAttributesAfter(@, handler.attributes)])
                        ELSE Serialized(html[k])])
     /\ (html = <<ElMatchA, TextT, EndTagEvent(s_a)>>
         /\ handler.attributes = << <<s_class, NULL>>, <<s_datax, <<"1">> >> >>)
        => out = <<"<", "a", " ", "d", "a", "t", "a", "-", "x", "=", "\"", "1", "\"", ">",
                   "t", "<", "/", "a", ">">>

\* C10 witness: setAttributes(doc, "a", {class: null, "data-x": "1"}) has
\* ended on <a class="old">t</a>.
C10_Witness ==
  /\ phase = "done"
  /\ handler.kind = "AttributeHandler"
  /\ handler.attributes = << <<s_class, NULL>>, <<s_datax, <<"1">> >> >>
  /\ html = <<ElMatchA, TextT, EndTagEvent(s_a)>>
  /\ out = <<"<", "a", " ", "d", "a", "t", "a", "-", "x", "=", "\"", "1", "\"", ">",
             "t", "<", "/", "a", ">">>

\* The markup of the events i..j of doc.
Markup(doc, i, j) == Concat([k \in 1..(j - i + 1) |-> Serialized(doc[i + k - 1])])

s_head == <<"h", "e", "a", "d">>
s_meta == <<"<", "m", "e", "t", "a", " ", "a", ">">>

\* <head> : matched
ElMatchHead == Ev("open", s_head, <<>>, <<>>, TRUE)

\* C11: insertHtml places newHtml by position.  For the one element a call
\* acts on, opened at i and closed at j: beforebegin writes newHtml right
\* before the open tag, afterbegin right after it (first child), beforeend
\* right before the closing tag (last child), afterend right after the
\* closing tag, and the rest of the document is unchanged.
\* insertHtml(doc, "head", "beforeend", "<meta a>") on <head>t</head> gives
\* <head>t<meta a></head>.
C11_InsertByPosition ==
  /\ (/\ handler.kind = "InsertHandler"
      /\ phase = "done"
      /\ Cardinality(Matches(html)) = 1
      /\ ~VoidMatches(html))
     => LET i == NthMatch(html, 1)
            j == CloseIndex(html, i)
            at(p) == IF handler.position = p THEN handler.newHtml ELSE <<>>
        IN out = Markup(html, 1, i - 1)
                   \o at("beforebegin") \o Serialized(html[i]) \o at("afterbegin")
                   \o Markup(html, i + 1, j - 1)
                   \o at("beforeend") \o Serialized(html[j]) \o at("afterend")
                   \o Markup(html, j + 1, Len(html))
  /\ \A o \in MutationOptions :
       Transformed(<<ElMatchHead, TextT, EndTagEvent(s_head)>>,
                   InsertHandler("beforeend", s_meta, o))
         = <<"<", "h", "e", "a", "d", ">", "t">> \o s_meta
             \o <<"<", "/", "h", "e", "a", "d", ">">>

\* C11 witness: insertHtml with position beforeend has ended on a document
\* whose one match has content, and newHtml sits between that content and
\* the closing tag.
C11_Witness ==
  /\ phase = "done"
  /\ handler.kind = "InsertHandler"
  /\ handler.position = "beforeend"
  /\ html = <<ElMatchA, TextT, EndTagEvent(s_a)>>
  /\ out = <<"<", "a", " ", "c", "l", "a", "s", "s", "=", "\"", "o", "l", "d", "\"", ">", "t">>
             \o s_hr \o <<"<", "/", "a", ">">>

\* ------------------------------------------------------------- the facade

\* JavaScript values as the facade's guards see them: the type typeof reports
\* and, for a string or a number, its text; for an object, its entries.
JsString(text) == [type |-> "string", text |-> text, entries |-> <<>>]

JsNull == [type |-> "null", text |-> <<>>, entries |-> <<>>]

JsUndefined == [type |-> "undefined", text |-> <<>>, entries |-> <<>>]

\* The number 42.
JsNumber == [type |-> "number", text |-> <<"4", "2">>, entries |-> <<>>]

JsObject(entries) == [type |-> "object", text |-> <<>>, entries |-> entries]

\* String(v), the conversion the runtime applies to an argument it needs as
\* a string.
JsToString(v) ==
  CASE v.type = "string" -> v.text
    [] v.type = "number" -> v.text
    [] v.type = "null" -> <<"n", "u", "l", "l">>
    [] v.type = "undefined" -> <<"u", "n", "d", "e", "f", "i", "n", "e", "d">>
    [] v.type = "object" ->
         <<"[", "o", "b", "j", "e", "c", "t", " ", "O", "b", "j", "e", "c", "t", "]">>

WhiteSpace == {" ", "\t", "\n", "\r"}

\* String.prototype.trim
Trim(text) ==
  LET ink == {i \in 1..Len(text) : text[i] \notin WhiteSpace}
  IN IF ink = {} THEN <<>>
     ELSE SubSeq(text, CHOOSE i \in ink : \A j \in ink : i <= j,
                       CHOOSE i \in ink : \A j \in ink : j <= i)

\* The negation of the guard  typeof x !== 'string' || !x.trim()
IsValidString(v) == v.type = "string" /\ Trim(v.text) # <<>>

\* The message querySelector and querySelectorAll give for a blank document.
s_error ==
  <<"E", "R", "R", "O", "R", ":", " ", "N", "o", " ", "v", "a",
    "l", "i", "d", " ", "H", "T", "M", "L", " ", "s", "t", "r",
    "i", "n", "g", " ", "p", "r", "o", "v", "i", "d", "e", "d",
    ".">>

s_m == <<"m">>

\* The documents of the calls, as the runtime's parser delivers them.  The
\* match flags are those of the selectors built from the key m.
Documents ==
  { <<ElMatchA, TextT, EndTagEvent(s_a)>>,
    <<ElMatchDiv, TextEvent, EndTagEvent(s_div)>>,
    <<ElDiv, ElMatchImg, EndTagEvent(s_div)>> }

\* The text of a document.
TextOf(d) == Markup(d, 1, Len(d))

\* encoder.encode(html): the argument as text; undefined takes the
\* parameter's default, the empty string.
Encode(v) == IF v.type = "undefined" THEN <<>> ELSE JsToString(v)

\* The events the runtime's parser delivers for a text: those of the document
\* the text is the markup of, and one text event for a text without markup.
Parse(text) ==
  IF \E d \in Documents : TextOf(d) = text
  THEN CHOOSE d \in Documents : TextOf(d) = text
  ELSE IF text = <<>> THEN <<>>
  ELSE <<Ev("text", <<>>, <<>>, text, FALSE)>>

\* The selectors the match flags of the documents stand for: m, #m, .m and
\* [name="m"].
TargetSelectors ==
  { s_m, <<"#">> \o s_m, <<".">> \o s_m,
    <<"[", "n", "a", "m", "e", "=", "\"">> \o s_m \o <<"\"", "]">> }

\* new HTMLRewriter().on(selector, handler): the runtime rejects a selector
\* that is empty once converted to a string.
SelectorParses(selector) == Trim(JsToString(selector)) # <<>>

\* The events with the matches of the call's selector: a selector that parses
\* and is no target selector matches no element of the documents.
Matching(events, selector) ==
  IF JsToString(selector) \in TargetSelectors THEN events
  ELSE [i \in 1..Len(events) |-> [events[i] EXCEPT !.matches = FALSE]]

\* What a facade call gives its caller: the value it resolves to, whether it
\* ran a scan, and whether it rejected instead.
Result(value, scanned, threw) == [value |-> value, scanned |-> scanned, threw |-> threw]

\* What querySelector gives for a blank document.
BlankDocumentResult == Result(s_error, FALSE, FALSE)

\* What querySelectorAll gives for a blank document.
BlankDocumentResults == Result(<<s_error>>, FALSE, FALSE)

\* return null, before any scan.
NullResult == Result(NULL, FALSE, FALSE)

\* return [], before any scan.
EmptyResult == Result(<<>>, FALSE, FALSE)

\* The rejection of a write-path call whose scan the runtime rejects.
Rejection == Result(JsUndefined, TRUE, TRUE)

\* The scan of a call whose selector the runtime rejects.
RejectedScan == Scan(<<>>, NewCollector, "threw")

\* The runtime where the code leaves it no choice.
DefaultRuntime == [replaces |-> FALSE, voidThrows |-> FALSE]

\* _runRewriter(html, selector, options) of the read path.
RunRewriterCall(r, doc, selector, opts, rt) ==
  IF ~SelectorParses(selector) THEN RejectedScan
  ELSE Replay(NewScan, Matching(Parse(Encode(doc)), selector), r, opts, rt)

\* A read-path result, or the rejection of its scan.
ReadResult(value) == Result(value, TRUE, value = THROWN)

\* querySelector(html, selector, options)
QuerySelectorCall(r, doc, selector, opts, rt) ==
  IF ~IsValidString(doc) THEN BlankDocumentResult
  ELSE ReadResult(QuerySelectorOf(RunRewriterCall(r, doc, selector, opts, rt), r, opts))

\* querySelectorAll(html, selector, options)
QuerySelectorAllCall(r, doc, selector, opts, rt) ==
  IF ~IsValidString(doc) THEN BlankDocumentResults
  ELSE ReadResult(QuerySelectorAllOf(RunRewriterCall(r, doc, selector, opts, rt), r, opts))

\* getElementById(html, id, options)
GetElementByIdCall(r, doc, id, opts, rt) ==
  IF ~IsValidString(id) THEN NullResult
  ELSE QuerySelectorCall(r, doc, JsString(<<"#">> \o id.text), opts, rt)

\* getElementsByClassName(html, className, options)
GetElementsByClassNameCall(r, doc, className, opts, rt) ==
  IF ~IsValidString(className) THEN EmptyResult
  ELSE QuerySelectorAllCall(r, doc, JsString(<<".">> \o className.text), opts, rt)

\* getElementsByTagName(html, tagName, options)
GetElementsByTagNameCall(r, doc, tagName, opts, rt) ==
  IF ~IsValidString(tagName) THEN EmptyResult
  ELSE QuerySelectorAllCall(r, doc, tagName, opts, rt)

\* name.replace(/"/g, '\\"')
EscapeName(name) ==
  Concat([i \in 1..Len(name) |-> IF name[i] = "\"" THEN <<"\\", "\"">> ELSE <<name[i]>>])

\* getElementsByName(html, name, options)
GetElementsByNameCall(r, doc, name, opts, rt) ==
  IF ~IsValidString(name) THEN EmptyResult
  ELSE QuerySelectorAllCall(r, doc,
         JsString(<<"[", "n", "a", "m", "e", "=", "\"">> \o EscapeName(name.text)
                    \o <<"\"", "]">>),
         opts, rt)

\* getAttribute(html, selector, attributeName)
GetAttributeCall(r, doc, selector, attributeName, rt) ==
  IF ~IsValidString(doc) THEN NullResult
  ELSE IF ~IsValidString(selector) THEN NullResult
  ELSE IF ~IsValidString(attributeName) THEN NullResult
  ELSE ReadResult(GetAttributeOf(
         RunRewriterCall(r, doc, selector,
                         [returnInnerHtml |-> FALSE, stripTags |-> FALSE,
                          attributeName |-> attributeName.text], rt)))

\* The transform and drain of a write-path call with handler h: the text
\* transformedResponse.text() resolves to, or the rejection of the scan.
TransformCall(doc, selector, h) ==
  IF ~SelectorParses(selector) THEN Rejection
  ELSE Result(JsString(Transformed(Matching(Parse(Encode(doc)), selector), h)), TRUE, FALSE)

\* deleteElements(html, selector, options)
DeleteElementsCall(doc, selector, opts) ==
  TransformCall(doc, selector, ElementHandler(NULL, opts))

\* replaceElements(html, selector, newHtml, options)
ReplaceElementsCall(doc, selector, newHtml, opts) ==
  IF newHtml.type # "string" THEN Result(doc, FALSE, FALSE)
  ELSE TransformCall(doc, selector, ElementHandler(newHtml.text, opts))

\* setAttributes(html, selector, attributes, options)
SetAttributesCall(doc, selector, attributes, opts) ==
  IF attributes.type \notin {"object", "null"} \/ attributes.type = "null"
  THEN Result(doc, FALSE, FALSE)
  ELSE TransformCall(doc, selector, AttributeHandler(attributes.entries, opts))

\* insertHtml(html, selector, position, newHtml, options) as it would be
\* without its check of the position.
InsertHtmlCallUnchecked(doc, selector, position, newHtml, opts) ==
  IF newHtml.type # "string" THEN Result(doc, FALSE, FALSE)
  ELSE TransformCall(doc, selector, InsertHandler(position, newHtml.text, opts))

\* insertHtml(html, selector, position, newHtml, options)
InsertHtmlCall(doc, selector, position, newHtml, opts) ==
  IF newHtml.type # "string" THEN Result(doc, FALSE, FALSE)
  ELSE IF position \notin Positions THEN Result(doc, FALSE, FALSE)
  ELSE TransformCall(doc, selector, InsertHandler(position, newHtml.text, opts))

\* The arguments of the calls.
HtmlArgs ==
  {JsString(TextOf(d)) : d \in Documents}
    \cup {JsString(<<>>), JsString(<<" ">>), JsNull, JsUndefined, JsNumber}

\* A selector, id, class name, tag name, name or attribute name.
KeyArgs == {JsString(s_m), JsString(s_id), JsString(<<>>), JsString(<<" ">>), JsNull}

NewHtmlArgs == {JsString(s_hr), JsNull}

AttributesArgs == {JsObject(m) : m \in AttributeMaps} \cup {JsNull, JsString(s_m)}

PositionArgs == Positions \cup {"middle"}

\* The runtime's choices are read by the capture mode of post-page.js only.
RuntimeOf(r) ==
  IF r = "postpage" THEN Runtime ELSE {DefaultRuntime}

\* The variables of the single scan, at rest while the facade is looked at
\* call by call.
ScanRest ==
  /\ rev = "postpage"
  /\ options = DefaultOptions
  /\ runtime = DefaultRuntime
  /\ html = <<>>
  /\ open = <<>>
  /\ collector = NewCollector
  /\ phase = "rest"
  /\ handler = NoHandler
  /\ out = <<>>

InitF ==
  /\ ScanRest
  /\ invocation = NoInvocation
  /\ returned = NoInvocation
  /\ heap = <<>>
  /\ calls = <<>>
  /\ HelperRest
  /\ KvRest
  /\ JobRest

\* The caller makes the call fn with these arguments and receives res.  One
\* call is looked at: calls share no state, so a second call would start from
\* the same state as the first.
Invoke(fn, r, doc, selector, opts, extra, position, rt, res) ==
  /\ invocation = NoInvocation
  /\ invocation' = [fn |-> fn, rev |-> r, doc |-> doc, selector |-> selector,
                    options |-> opts, extra |-> extra, position |-> position,
                    runtime |-> rt]
  /\ returned' = res
  /\ UNCHANGED notFacadeVars

QuerySelector ==
  \E r \in Revisions, doc \in HtmlArgs, selector \in KeyArgs, opts \in QueryOptions :
    \E rt \in RuntimeOf(r) :
      Invoke("querySelector", r, doc, selector, opts, JsUndefined, "", rt,
             QuerySelectorCall(r, doc, selector, opts, rt))

QuerySelectorAll ==
  \E r \in Revisions, doc \in HtmlArgs, selector \in KeyArgs, opts \in QueryOptions :
    \E rt \in RuntimeOf(r) :
      Invoke("querySelectorAll", r, doc, selector, opts, JsUndefined, "", rt,
             QuerySelectorAllCall(r, doc, selector, opts, rt))

GetElementById ==
  \E r \in Revisions, doc \in HtmlArgs, id \in KeyArgs, opts \in QueryOptions :
    \E rt \in RuntimeOf(r) :
      Invoke("getElementById", r, doc, id, opts, JsUndefined, "", rt,
             GetElementByIdCall(r, doc, id, opts, rt))

GetElementsByClassName ==
  \E r \in Revisions, doc \in HtmlArgs, className \in KeyArgs, opts \in QueryOptions :
    \E rt \in RuntimeOf(r) :
      Invoke("getElementsByClassName", r, doc, className, opts, JsUndefined, "", rt,
             GetElementsByClassNameCall(r, doc, className, opts, rt))

GetElementsByTagName ==
  \E r \in Revisions, doc \in HtmlArgs, tagName \in KeyArgs, opts \in QueryOptions :
    \E rt \in RuntimeOf(r) :
      Invoke("getElementsByTagName", r, doc, tagName, opts, JsUndefined, "", rt,
             GetElementsByTagNameCall(r, doc, tagName, opts, rt))

GetElementsByName ==
  \E r \in Revisions, doc \in HtmlArgs, name \in KeyArgs, opts \in QueryOptions :
    \E rt \in RuntimeOf(r) :
      Invoke("getElementsByName", r, doc, name, opts, JsUndefined, "", rt,
             GetElementsByNameCall(r, doc, name, opts, rt))

GetAttribute ==
  \E r \in Revisions, doc \in HtmlArgs, selector \in KeyArgs, attributeName \in KeyArgs :
    LET rt == DefaultRuntime
    IN Invoke("getAttribute", r, doc, selector, DefaultOptions, attributeName, "", rt,
              GetAttributeCall(r, doc, selector, attributeName, rt))

DeleteElements ==
  \E doc \in HtmlArgs, selector \in KeyArgs, opts \in MutationOptions :
    Invoke("deleteElements", "postpage", doc, selector, opts, JsUndefined, "",
           DefaultRuntime,
           DeleteElementsCall(doc, selector, opts))

ReplaceElements ==
  \E doc \in HtmlArgs, selector \in KeyArgs, newHtml \in NewHtmlArgs,
     opts \in MutationOptions :
    Invoke("replaceElements", "postpage", doc, selector, opts, newHtml, "",
           DefaultRuntime,
           ReplaceElementsCall(doc, selector, newHtml, opts))

SetAttributes ==
  \E doc \in HtmlArgs, selector \in KeyArgs, attributes \in AttributesArgs,
     opts \in MutationOptions :
    Invoke("setAttributes", "postpage", doc, selector, opts, attributes, "",
           DefaultRuntime,
           SetAttributesCall(doc, selector, attributes, opts))

InsertHtml ==
  \E doc \in HtmlArgs, selector \in KeyArgs, position \in PositionArgs,
     newHtml \in NewHtmlArgs, opts \in MutationOptions :
    Invoke("insertHtml", "postpage", doc, selector, opts, newHtml, position,
           DefaultRuntime,
           InsertHtmlCall(doc, selector, position, newHtml, opts))

NextF ==
  \/ QuerySelector \/ QuerySelectorAll \/ GetElementById \/ GetElementsByClassName
  \/ GetElementsByTagName \/ GetElementsByName \/ GetAttribute
  \/ DeleteElements \/ ReplaceElements \/ SetAttributes \/ InsertHtml

SpecF == InitF /\ [][NextF]_vars

\* --------------------------------------------------- claims on the facade

SingleReads == {"querySelector", "getElementById", "getAttribute"}

MultiReads ==
  {"querySelectorAll", "getElementsByClassName", "getElementsByTagName",
   "getElementsByName"}

Writes == {"deleteElements", "replaceElements", "setAttributes", "insertHtml"}

\* The key arguments of the call are valid strings.
ValidKeys ==
  /\ IsValidString(invocation.selector)
  /\ invocation.fn = "getAttribute" => IsValidString(invocation.extra)

\* C12: insertHtml with a position outside beforebegin, afterbegin,
\* beforeend, afterend inserts nothing, raises no exception and returns the
\* document argument as it was given; InsertHandler.element with such a
\* position leaves the element as it was.
C12_InvalidPositionNoOp ==
  /\ (invocation.fn = "insertHtml" /\ invocation.position \notin Positions)
     => /\ ~returned.threw
        /\ returned.value = invocation.doc
  /\ \A ev \in WriteOpenEvents, o \in MutationOptions :
       InsertHandlerElement(InsertHandler("middle", s_hr, o), Element(ev)).el = Element(ev)

\* C12 witness: insertHtml(doc, "m", "middle", "<hr>") on a document with a
\* match has returned the document.
C12_Witness ==
  /\ invocation.fn = "insertHtml"
  /\ invocation.position = "middle"
  /\ invocation.extra = JsString(s_hr)
  /\ invocation.selector = JsString(s_m)
  /\ invocation.doc = JsString(TextOf(<<ElMatchA, TextT, EndTagEvent(s_a)>>))
  /\ ~returned.threw
  /\ returned.value = invocation.doc

\* C13: when the document argument is empty, whitespace-only or not a string,
\* querySelector, getElementById and getAttribute return null, the
\* multi-result read functions return an empty sequence or the one-element
\* error sequence, and no scan is started.
C13_BlankDocumentReads ==
  (/\ invocation.fn \in SingleReads \cup MultiReads
   /\ ~IsValidString(invocation.doc)
   /\ ValidKeys)
  => /\ ~returned.threw
     /\ ~returned.scanned
     /\ invocation.fn \in SingleReads => returned.value = NULL
     /\ invocation.fn \in MultiReads => returned.value \in {<<>>, <<s_error>>}

\* C14: when the document argument is empty or not a string, deleteElements,
\* replaceElements, setAttributes and insertHtml return the document argument
\* as it was given.
C14_BlankDocumentWrites ==
  (/\ invocation.fn \in Writes
   /\ invocation.doc.type # "string" \/ invocation.doc.text = <<>>
   /\ ValidKeys)
  => /\ ~returned.threw
     /\ returned.value = invocation.doc

\* C15: an empty or non-string selector, id, class name, tag name, name or
\* attribute name never raises an exception: a single-result read returns
\* null, a multi-result read an empty sequence, a write the document
\* unchanged.  Stated for calls whose document argument is a non-blank string.
C15_BlankKeyDegrades ==
  (/\ invocation.fn # "none"
   /\ IsValidString(invocation.doc)
   /\ ~ValidKeys)
  => /\ ~returned.threw
     /\ invocation.fn \in SingleReads => returned.value = NULL
     /\ invocation.fn \in MultiReads => returned.value = <<>>
     /\ invocation.fn \in Writes => returned.value = invocation.doc

\* The matches of doc whose end tag is not in doc.
Unclosed(doc) == {i \in Matches(doc) : CloseIndex(doc, i) = 0}

\* doc with the open tags at the indexes in U no longer matching the selector.
Unmatched(doc, U) ==
  [i \in 1..Len(doc) |-> IF i \in U THEN [doc[i] EXCEPT !.matches = FALSE] ELSE doc[i]]

s_p == <<"p">>
s_Bye == <<"B", "y", "e">>

\* <p id="a"> and <p id="b"> : matched
ElMatchPa == Ev("open", s_p, << <<s_id, <<"a">> >> >>, <<>>, TRUE)
ElMatchPb == Ev("open", s_p, << <<s_id, <<"b">> >> >>, <<>>, TRUE)

\* <div><p id="a">Hi</p><p id="b">Bye</p></div>
SiblingsDocument ==
  <<ElDiv, ElMatchPa, TextEvent, EndTagEvent(s_p),
    ElMatchPb, Ev("text", <<>>, <<>>, s_Bye, FALSE), EndTagEvent(s_p), EndTagEvent(s_div)>>

\* No element the selector matched is open.
NoMatchOpen == \A i \in 1..Len(open) : ~open[i].matches

\* The next event is delivered, and it is not the open tag of a match.
OutsideEvent ==
  /\ phase = "scan"
  /\ Len(html') = Len(html) + 1
  /\ ~(html'[Len(html')].type = "open" /\ html'[Len(html')].matches)

FairSpec == Spec /\ WF_vars(Next)

\* The matches of doc whose end tag is in doc.
Closed(doc) == {i \in Matches(doc) : ~IsVoidTag(doc, i) /\ CloseIndex(doc, i) # 0}

\* C18: a facade call returns only after every event of the document was
\* delivered: on every finite document the call eventually returns, and when
\* it returns results holds an entry for every match whose end tag fired.
C18_ReturnsAfterDrain ==
  /\ <>(phase \in {"done", "eof"})
  /\ [](phase \in {"done", "eof"} =>
          (options.attributeName = NULL => Len(collector.results) >= Cardinality(Closed(html))))

\* ------------------------------------------------- calls in progress together

\* new Collector(options) as it would be if the calls used one instance of the module.
NewShared(h, object) ==
  IF h = <<>> THEN [heap |-> Append(h, object), ref |-> Len(h) + 1]
  ELSE [heap |-> h, ref |-> 1]

\* new Collector(options), new ElementHandler(...): the instance is a new
\* object, reached through a reference no other call holds.
New(h, object) == [heap |-> Append(h, object), ref |-> Len(h) + 1]

\* The documents of the calls in progress together.
CallDocuments == Documents \cup { <<ElMatchA, EndTagEvent(s_a), ElMatchImg>> }

\* A facade call before it starts: querySelectorAll(doc, selector, opts) of
\* revision r, or a write-path call with handler h.
ReadCall(r, doc, opts) ==
  [kind |-> "read", rev |-> r, options |-> opts, made |-> NoHandler, doc |-> doc,
   pos |-> 0, open |-> <<>>, ref |-> 0, phase |-> "new", out |-> <<>>, value |-> <<>>]

WriteCall(doc, h) ==
  [kind |-> "write", rev |-> "postpage", options |-> DefaultOptions, made |-> h, doc |-> doc,
   pos |-> 0, open |-> <<>>, ref |-> 0, phase |-> "new", out |-> <<>>, value |-> <<>>]

CallOptions ==
  {DefaultOptions, [returnInnerHtml |-> TRUE, stripTags |-> TRUE, attributeName |-> NULL]}

CallHandlers == {ElementHandler(NULL, [firstOnly |-> TRUE]),
                 InsertHandler("afterend", s_hr, [firstOnly |-> TRUE])}

Calls ==
  {ReadCall(r, d, o) : r \in Revisions, d \in CallDocuments, o \in CallOptions}
    \cup {WriteCall(d, h) : d \in CallDocuments, h \in CallHandlers}

InitC ==
  /\ ScanRest
  /\ invocation = NoInvocation
  /\ returned = NoInvocation
  /\ heap = <<>>
  /\ calls \in [1..2 -> Calls]
  /\ HelperRest
  /\ KvRest
  /\ JobRest

\* Call i starts: it creates its Collector or its handler.
Start(i) ==
  /\ calls[i].phase = "new"
  /\ LET n == New(heap, IF calls[i].kind = "read" THEN NewCollector ELSE calls[i].made)
     IN /\ heap' = n.heap
        /\ calls' = [calls EXCEPT ![i].ref = n.ref, ![i].phase = "scan"]
  /\ UNCHANGED notCallVars

\* The runtime delivers the next event of call i's document to the handlers
\* of call i.
Step(i) ==
  /\ calls[i].phase = "scan"
  /\ calls[i].pos < Len(calls[i].doc)
  /\ LET c == calls[i]
         ev == c.doc[c.pos + 1]
     IN IF c.kind = "read"
        THEN LET d == Dispatch(Scan(c.open, heap[c.ref], "scan"), ev, c.rev, c.options,
                               DefaultRuntime)
             IN /\ heap' = [heap EXCEPT ![c.ref] = d.collector]
                /\ calls' = [calls EXCEPT ![i].pos = @ + 1, ![i].open = d.open,
                                          ![i].phase = d.phase]
        ELSE LET w == WriteDispatch(WScan(c.open, heap[c.ref], c.out), ev)
             IN /\ heap' = [heap EXCEPT ![c.ref] = w.handler]
                /\ calls' = [calls EXCEPT ![i].pos = @ + 1, ![i].open = w.open,
                                          ![i].out = w.out]
  /\ UNCHANGED notCallVars

\* The stream of call i is drained: the call returns its value.
Return(i) ==
  /\ calls[i].phase = "scan"
  /\ calls[i].pos = Len(calls[i].doc)
  /\ LET c == calls[i]
     IN calls' = [calls EXCEPT
          ![i].phase = "done",
          ![i].value = IF c.kind = "read"
                       THEN QuerySelectorAllOf(Scan(c.open, heap[c.ref], "done"),
                                               c.rev, c.options)
                       ELSE c.out]
  /\ UNCHANGED <<heap, notCallVars>>

NextC == \E i \in 1..2 : Start(i) \/ Step(i) \/ Return(i)

SpecC == InitC /\ [][NextC]_vars

\* What call c returns when nothing else runs.
Alone(c) ==
  IF c.kind = "read"
  THEN querySelectorAll(c.doc, c.rev, c.options, DefaultRuntime)
  ELSE Transformed(c.doc, c.made)

\* C19: two facade calls whose scans interleave in any order return what each
\* returns when run alone: each call has its own Collector or handler, and no
\* call reads or writes the instance of the other.
C19_CallsAreIsolated ==
  /\ \A i \in 1..2 : calls[i].phase = "done" => calls[i].value = Alone(calls[i])
  /\ (calls[1].ref # 0 /\ calls[2].ref # 0) => calls[1].ref # calls[2].ref

\* C19 witness: both calls have returned, and the second call started while
\* the first was scanning a document with a match.
C19_Witness ==
  /\ calls[1].phase = "done"
  /\ calls[2].phase = "done"
  /\ calls[1].ref = 1
  /\ calls[1].kind = "read"
  /\ calls[2].kind = "write"
  /\ calls[1].value # <<>>
  /\ calls[2].value # calls[2].doc

\* ------------------------------------------------------------ cacheHelper

\* config.cacheDurationSeconds
cacheDurationSeconds == 3600

\* A response stored in the cache by an earlier request.
EarlierResponse == [status |-> 200, from |-> "cache"]

\* What fetch(cacheUrl) can resolve to, and its rejection.
OriginResponses == {[status |-> 200, from |-> "origin"], [status |-> 404, from |-> "origin"]}

FetchError == [status |-> 0, from |-> "error"]

\* originResponse.ok
Ok(response) == response.status >= 200 /\ response.status <= 299

\* new Response(originResponse.body, { status, statusText, headers }) with
\* Cache-Control: max-age=${config.cacheDurationSeconds}, public, immutable
Cacheable(originResponse) ==
  [status |-> originResponse.status, from |-> originResponse.from,
   maxAge |-> cacheDurationSeconds]

\* new Response('An error occurred while fetching the resource.', { status: 503 })
ErrorResponse == [status |-> 503, from |-> "cacheHelper"]

\* cacheHelper(request, cacheUrl, cacheDurationSeconds, ctx) before its first
\* statement: cacheUrl is a URL or a string that is none, and the duration is
\* one of those the worker passes.
HelperCalls ==
  [pc : {"start"}, cacheUrl : {"url", "not a url"}, duration : {1, cacheDurationSeconds},
   response : {NoResponse}, originResponse : {NoResponse}, staleResponse : {NoResponse},
   fetches : {0}, puts : {0}, waitUntil : {<<>>}, value : {NoResponse}]

\* How many scheduled cache puts may be pending when a request arrives.
MaxPending == 1

InitH ==
  /\ ScanRest
  /\ invocation = NoInvocation
  /\ returned = NoInvocation
  /\ heap = <<>>
  /\ calls = <<>>
  /\ cache \in {NoResponse, EarlierResponse}
  /\ helper \in HelperCalls
  /\ KvRest
  /\ JobRest

\* What cacheHelper leaves alone.
notHelperVars == <<scanVars, facadeVars, callVars, kvVars, jobVars>>

\* const cacheKey = new Request(cacheUrl, request): the constructor throws
\* on a string that is no URL, and the call rejects.
NewRequest ==
  /\ helper.pc = "start"
  /\ helper' = [helper EXCEPT !.pc = IF helper.cacheUrl = "url" THEN "match" ELSE "threw"]
  /\ UNCHANGED <<cache, notHelperVars>>

\* let response = await cache.match(cacheKey); a hit is returned at once.
CacheMatch ==
  /\ helper.pc = "match"
  /\ helper' = IF cache # NoResponse
               THEN [helper EXCEPT !.pc = "returned", !.response = cache, !.value = cache]
               ELSE [helper EXCEPT !.pc = "fetch"]
  /\ UNCHANGED <<cache, notHelperVars>>

\* The try block: fetch, and on an ok response the copy with the
\* Cache-Control header, the scheduled cache.put and the return; a response
\* that is not ok throws into the catch block, as a rejected fetch does.
Fetch ==
  /\ helper.pc = "fetch"
  /\ \E originResponse \in OriginResponses \cup {FetchError} :
       helper' = IF originResponse # FetchError /\ Ok(originResponse)
                 THEN [helper EXCEPT !.pc = "returned",
                                     !.originResponse = originResponse,
                                     !.fetches = @ + 1,
                                     !.puts = @ + 1,
                                     !.waitUntil = Append(@, Cacheable(originResponse)),
                                     !.value = Cacheable(originResponse)]
                 ELSE [helper EXCEPT !.pc = "catch",
                                     !.originResponse = originResponse,
                                     !.fetches = @ + 1]
  /\ UNCHANGED <<cache, notHelperVars>>

\* The catch block: the stale response if cache.match finds one, else the
\* 503 response.
Catch ==
  /\ helper.pc = "catch"
  /\ helper' = [helper EXCEPT !.pc = "returned",
                              !.staleResponse = cache,
                              !.value = IF cache # NoResponse THEN cache ELSE ErrorResponse]
  /\ UNCHANGED <<cache, notHelperVars>>

\* ctx.waitUntil(cache.put(cacheKey, response.clone())): the put is performed
\* some time after it was scheduled.
CachePut ==
  /\ helper.pc # "rest"
  /\ helper.waitUntil # <<>>
  /\ cache' = Head(helper.waitUntil)
  /\ helper' = [helper EXCEPT !.waitUntil = Tail(@)]
  /\ UNCHANGED notHelperVars

\* Another request stores a response under the key, or the cache evicts the
\* entry, while the call waits.
CacheChanges ==
  /\ helper.pc \in {"match", "fetch", "catch"}
  /\ cache' \in {NoResponse, EarlierResponse} \ {cache}
  /\ UNCHANGED <<helper, notHelperVars>>

\* The worker handles its next request with a call of cacheHelper; cache
\* puts scheduled by earlier requests may still be pending.
NextRequest ==
  /\ helper.pc \in {"returned", "threw"}
  /\ Len(helper.waitUntil) <= MaxPending
  /\ \E call \in HelperCalls : helper' = [call EXCEPT !.waitUntil = helper.waitUntil]
  /\ UNCHANGED <<cache, notHelperVars>>

NextH ==
  NewRequest \/ CacheMatch \/ Fetch \/ Catch \/ CachePut \/ CacheChanges \/ NextRequest

SpecH == InitH /\ [][NextH]_vars

\* C20: cacheHelper always resolves to a Response and never throws.  On a
\* hit it returns the cached response and fetches nothing; on a miss with an
\* ok origin response it returns that response and schedules a cache put;
\* on a miss with a failed or non-ok fetch it returns the stale cached
\* response if there is one, and the 503 response only if there is none.
C20_AlwaysAResponse ==
  /\ helper.pc # "threw"
  /\ helper.pc = "returned" =>
       /\ helper.value # NoResponse
       /\ helper.response # NoResponse =>
            (helper.value = helper.response /\ helper.fetches = 0)
       /\ (helper.response = NoResponse /\ helper.originResponse \in OriginResponses
           /\ Ok(helper.originResponse)) =>
            /\ helper.value = Cacheable(helper.originResponse)
            /\ helper.fetches = 1
            /\ helper.puts = 1
       /\ (helper.response = NoResponse
           /\ ~(helper.originResponse \in OriginResponses /\ Ok(helper.originResponse))) =>
            helper.value = IF helper.staleResponse # NoResponse THEN helper.staleResponse
                           ELSE ErrorResponse

\* C21: the response cacheHelper stores in the cache has a Cache-Control
\* max-age equal to the cacheDurationSeconds argument of the call.
C21_MaxAgeIsArgument ==
  (helper.pc = "returned" /\ helper.puts = 1) =>
    /\ helper.value.maxAge = helper.duration
    /\ \A i \in 1..Len(helper.waitUntil) : helper.waitUntil[i].maxAge = helper.duration

\* ------------------------------------------------------------ getCachedKV

\* The longest time the clock runs, in milliseconds.
MaxClock == 2000

\* The instants at which something happens: each full second and the
\* millisecond just before it.
Instants == {t \in 0..MaxClock : t % 1000 \in {0, 999}}

Keys == {"pages", "posts"}

\* What env.GALLERY.get resolves to: a stored string, or null for no value.
KvValues == {"null", "a"}

\* inMemoryCache[key] of a key never stored: undefined.
NoEntry == [value |-> "undefined", ts |-> 0, readAt |-> 0]

\* The arguments after key: none, or cacheSeconds as a number of seconds.
CacheSecondsArgs == {<<>>, <<1>>}

\* cacheSeconds = 3600: the default of an omitted argument.
CacheSeconds(arg) == IF arg = <<>> THEN cacheDurationSeconds ELSE arg[1]

\* inMemoryCache[key] && (now - inMemoryCache[key].ts < cacheSeconds * 1000),
\* with <= in place of <.
FreshInclusive(entry, now, cacheSeconds) ==
  entry # NoEntry /\ now - entry.ts <= cacheSeconds * 1000

\* inMemoryCache[key] && (now - inMemoryCache[key].ts < cacheSeconds * 1000)
Fresh(entry, now, cacheSeconds) ==
  entry # NoEntry /\ now - entry.ts < cacheSeconds * 1000

InitK ==
  /\ ScanRest
  /\ invocation = NoInvocation
  /\ returned = NoInvocation
  /\ heap = <<>>
  /\ calls = <<>>
  /\ HelperRest
  /\ clock = 0
  /\ inMemoryCache = [key \in Keys |-> NoEntry]
  /\ kv \in [Keys -> KvValues]
  /\ kvCall = [pc |-> "idle"]
  /\ JobRest

\* What getCachedKV leaves alone.
notKvVars == <<scanVars, facadeVars, callVars, helperVars, jobVars>>

\* getCachedKV(env, key, cacheSeconds) up to its first await: the call reads
\* the clock and returns the in-memory value if the entry is fresh, else it
\* starts the KV read.  Calls are made one after the other.  The fields seen,
\* hit and reads record what the call looked at, for the properties.
GetCachedKV ==
  /\ kvCall.pc \in {"idle", "returned", "threw"}
  /\ \E key \in Keys, arg \in CacheSecondsArgs :
       LET now == clock
           cacheSeconds == CacheSeconds(arg)
           entry == inMemoryCache[key]
           hit == Fresh(entry, now, cacheSeconds)
       IN kvCall' = [pc |-> IF hit THEN "returned" ELSE "reading",
                     key |-> key, cacheSeconds |-> cacheSeconds, now |-> now,
                     seen |-> entry, hit |-> hit, reads |-> 0,
                     value |-> IF hit THEN entry.value ELSE "undefined"]
  /\ UNCHANGED <<clock, inMemoryCache, kv, notKvVars>>

\* const value = await env.GALLERY.get(key) resolves; the value is stored
\* with the timestamp read at the start of the call, and returned.  readAt
\* records when the value was read, for the properties.
KvGet ==
  /\ kvCall.pc = "reading"
  /\ LET value == kv[kvCall.key]
     IN /\ inMemoryCache' = [inMemoryCache EXCEPT
                               ![kvCall.key] = [value |-> value, ts |-> kvCall.now,
                                                readAt |-> clock]]
        /\ kvCall' = [kvCall EXCEPT !.pc = "returned", !.value = value, !.reads = @ + 1]
  /\ UNCHANGED <<clock, kv, notKvVars>>

\* env.GALLERY.get rejects: the call rejects and nothing is stored.
KvGetRejects ==
  /\ kvCall.pc = "reading"
  /\ kvCall' = [kvCall EXCEPT !.pc = "threw", !.reads = @ + 1]
  /\ UNCHANGED <<clock, inMemoryCache, kv, notKvVars>>

\* Time passes.
Tick ==
  /\ kvCall.pc # "rest"
  /\ \E t \in Instants : t > clock /\ clock' = t
  /\ UNCHANGED <<inMemoryCache, kv, kvCall, notKvVars>>

\* Someone writes or deletes the key in the KV namespace.
KvPut ==
  /\ kvCall.pc # "rest"
  /\ \E key \in Keys, value \in KvValues :
       /\ kv[key] # value
       /\ kv' = [kv EXCEPT ![key] = value]
  /\ UNCHANGED <<clock, inMemoryCache, kvCall, notKvVars>>

NextK == GetCachedKV \/ KvGet \/ KvGetRejects \/ Tick \/ KvPut

SpecK == InitK /\ [][NextK]_vars

\* C22: a call of getCachedKV that returns has returned the in-memory value
\* without a KV read exactly when the key had an entry whose timestamp is
\* fewer than cacheSeconds*1000 milliseconds before the call; otherwise it
\* has read KV once, stored the value with the call's timestamp and returned
\* it; and a value served from the cache was read from KV less than
\* cacheSeconds before.
C22_FreshOrRead ==
  kvCall.pc = "returned" =>
    /\ kvCall.hit <=> (kvCall.seen # NoEntry
                       /\ kvCall.now - kvCall.seen.ts < kvCall.cacheSeconds * 1000)
    /\ kvCall.hit =>
         /\ kvCall.value = kvCall.seen.value
         /\ kvCall.reads = 0
         /\ inMemoryCache[kvCall.key] = kvCall.seen
         /\ kvCall.now - kvCall.seen.readAt < kvCall.cacheSeconds * 1000
    /\ ~kvCall.hit =>
         /\ kvCall.reads = 1
         /\ inMemoryCache[kvCall.key].value = kvCall.value
         /\ inMemoryCache[kvCall.key].ts = kvCall.now

\* A call is served from the cache some time after the entry was stored,
\* while the KV namespace already holds another value.
C22_Witness ==
  /\ kvCall.pc = "returned"
  /\ kvCall.hit
  /\ kvCall.now > kvCall.seen.ts
  /\ kv[kvCall.key] # kvCall.value

\* ------------------------------------------- the Collector's one buffer

\* Whether the Collector of the scan is capturing, and its buffer.
IsCapturing(c) == IF rev = "postpage" THEN c.isCapturing ELSE c.curBuffer # NULL

BufferOf(c) == IF rev = "postpage" THEN c.captureBuffer ELSE c.curBuffer

\* The tag serializer of the revision.
OpenTagOf(el) == IF rev = "postpage" THEN _openTag(el) ELSE Collector_openTag(el)

IsPrefix(p, q) == Len(p) <= Len(q) /\ SubSeq(q, 1, Len(p)) = p

\* The target handler fires during a capture: the next event delivered is
\* the open tag of a match, in capture mode, while the Collector is capturing.
MatchWhileCapturing ==
  /\ phase = "scan"
  /\ options.attributeName = NULL
  /\ IsCapturing(collector)
  /\ Len(html') = Len(html) + 1
  /\ html'[Len(html')].type = "open"
  /\ html'[Len(html')].matches

\* The buffer is discarded and restarts at the open tag of the new match;
\* nothing is pushed.
Restarted ==
  /\ phase' = "scan" => BufferOf(collector') = OpenTagOf(html'[Len(html')])
  /\ collector'.results = collector.results

\* An end tag pushes an entry: the entry is built from the buffer as it
\* stood, whose content starts at the last restart.
PushedFromBuffer ==
  (/\ phase = "scan"
   /\ options.attributeName = NULL
   /\ rev = "htmlparser" => (~options.returnInnerHtml /\ ~options.stripTags)
   /\ Len(html') = Len(html) + 1
   /\ html'[Len(html')].type = "close"
   /\ collector'.results # collector.results)
  => /\ Len(collector'.results) = Len(collector.results) + 1
     /\ SubSeq(collector'.results, 1, Len(collector.results)) = collector.results
     /\ IsCapturing(collector) =>
          IsPrefix(BufferOf(collector), collector'.results[Len(collector'.results)])

\* C23 as stated: whenever the target handler fires while the Collector is
\* capturing, the unfinished buffer content is discarded and the buffer
\* restarts at the new match's serialized open tag.
C23_AnyMatchRestarts == [][MatchWhileCapturing => Restarted]_vars

\* C23, amended: a Collector has one buffer and never nests sessions.  When
\* the target handler fires for a non-void element while the Collector is
\* capturing, the unfinished buffer content is discarded and the buffer
\* restarts at the new match's serialized open tag, and every entry pushed
\* later is built from the buffer as it then stands, so the discarded
\* content appears in no later result.
C23_NonVoidMatchRestarts ==
  [][/\ (MatchWhileCapturing /\ ~IsVoid(html'[Len(html')].tagName)) => Restarted
     /\ PushedFromBuffer]_vars

\* A match opened inside a match has restarted the buffer, and its end tag
\* has pushed an entry.
C23_Witness ==
  /\ options.attributeName = NULL
  /\ phase = "scan"
  /\ html # <<>>
  /\ html[Len(html)].type = "close"
  /\ collector.results # <<>>
  /\ \E i, j \in Matches(html) :
       /\ i < j
       /\ ~IsVoidTag(html, i)
       /\ ~IsVoidTag(html, j)
       /\ CloseIndex(html, i) = 0
       /\ CloseIndex(html, j) = Len(html)

\* q occurs in p as a contiguous part.
IsPartOf(q, p) == \E k \in 0..(Len(p) - Len(q)) : SubSeq(p, k + 1, k + Len(q)) = q

\* The pairs of matches one inside the other, both closed.
NestedPairs(doc) ==
  {ij \in Matches(doc) \X Matches(doc) :
     /\ ij[1] < ij[2]
     /\ CloseIndex(doc, ij[1]) # 0
     /\ ij[2] < CloseIndex(doc, ij[1])}

\* C24: when the target selector also matches a descendant of the element
\* being captured, the result of the outer match contains the complete
\* serialization of the nested match as nested content, and the nested match
\* is also a result of its own.
C24_NestedInOuterAndAlone ==
  (/\ phase = "done"
   /\ options = DefaultOptions
   /\ ~HasComments(html)
   /\ ~VoidMatches(html))
  => \A ij \in NestedPairs(html) :
       LET results == QuerySelectorAllOf(Current, rev, options)
       IN /\ \E b \in 1..Len(results) : results[b] = OuterHTML(html, ij[2])
          /\ \E a \in 1..Len(results) :
               /\ IsPrefix(Serialized(html[ij[1]]), results[a])
               /\ IsPartOf(OuterHTML(html, ij[2]), results[a])
               /\ Len(results[a]) > Len(OuterHTML(html, ij[2]))

IsSuffix(q, p) == Len(q) <= Len(p) /\ SubSeq(p, Len(p) - Len(q) + 1, Len(p)) = q

\* The end tag of a target match is delivered in capture mode: its end-tag
\* callback fires.
MatchEndTag ==
  /\ phase = "scan"
  /\ options.attributeName = NULL
  /\ open # <<>>
  /\ open[Len(open)].matches
  /\ Len(html') = Len(html) + 1
  /\ html'[Len(html')].type = "close"

\* C25: when the end-tag callback of a target match fires, it adds exactly
\* one entry to results, the entry ends with </T> where T is the tag name of
\* the element whose open event registered the callback, whatever matches
\* opened or closed in between, and it leaves the Collector not capturing
\* with buffer and tag name cleared.
C25_CallbackClosesItsOwnTag ==
  [][MatchEndTag =>
       /\ Len(collector'.results) = Len(collector.results) + 1
       /\ (rev = "htmlparser" => (~options.returnInnerHtml /\ ~options.stripTags)) =>
            IsSuffix(CloseTag(open[Len(open)].tagName),
                     collector'.results[Len(collector'.results)])
       /\ ~IsCapturing(collector')
       /\ IF rev = "postpage"
          THEN collector'.captureBuffer = <<>> /\ collector'.currentTagName = <<>>
          ELSE collector'.curBuffer = NULL /\ collector'.curTagName = NULL]_vars

\* The value pushed for each match of doc in attribute-extraction mode.
RECURSIVE AttributeValues(_, _)
AttributeValues(doc, name) ==
  IF doc = <<>> THEN <<>>
  ELSE LET ev == doc[Len(doc)]
           before == AttributeValues(SubSeq(doc, 1, Len(doc) - 1), name)
       IN IF ev.type = "open" /\ ev.matches
          THEN Append(before, IF ElGetAttribute(ev, name) # NULL
                              THEN ElGetAttribute(ev, name) ELSE <<>>)
          ELSE before

\* C26: in attribute-extraction mode the Collector never buffers: after any
\* sequence of events it is not capturing, its buffer was never written, no
\* end-tag callback is registered on an open element, and results holds
\* exactly one entry per target open event (text, comments, end tags and
\* elements that do not match have changed nothing).
C26_AttributeModeNeverBuffers ==
  options \in AttributeOptions =>
    /\ phase # "threw"
    /\ collector = [NewCollector EXCEPT !.results = AttributeValues(html, options.attributeName)]
    /\ \A i \in 1..Len(open) : open[i].cbs = <<>>

\* An attribute-mode scan has delivered a match with text inside it and an
\* element inside it, and has ended.
C26_Witness ==
  /\ options \in AttributeOptions
  /\ phase = "done"
  /\ \E i \in Matches(html) :
       /\ i + 2 < CloseIndex(html, i)
       /\ \E j, k \in (i + 1)..(CloseIndex(html, i) - 1) :
            html[j].type = "text" /\ html[k].type = "open"

\* C27: a comment delivered while capturing appends <!--text--> with the
\* comment's text to the buffer; a comment delivered while not capturing
\* changes nothing.
C27_CommentCaptured ==
  [][(/\ phase = "scan"
      /\ options.attributeName = NULL
      /\ Len(html') = Len(html) + 1
      /\ html'[Len(html')].type = "comment")
     => IF IsCapturing(collector)
        THEN collector' = IF rev = "postpage"
                          THEN [collector EXCEPT !.captureBuffer =
                                  @ \o CommentMarkup(html'[Len(html')].text)]
                          ELSE [collector EXCEPT !.curBuffer =
                                  @ \o CommentMarkup(html'[Len(html')].text)]
        ELSE collector' = collector]_vars

\* C28: the tag serializer returns <tag a1="v1" a2="v2"> with the attributes
\* in the order of the event, every double quote inside a value replaced by
\* &quot;, and no trailing slash; the buffer a non-void match has just
\* started is that serialization of its open event.
C28_OpenTagSerialized ==
  (/\ phase = "scan"
   /\ options.attributeName = NULL
   /\ html # <<>>
   /\ html[Len(html)].type = "open"
   /\ html[Len(html)].matches
   /\ ~IsVoid(html[Len(html)].tagName))
  => /\ OpenTagOf(html[Len(html)]) = Serialized(html[Len(html)])
     /\ BufferOf(collector) = Serialized(html[Len(html)])

\* The event at k lies inside an element opened at an index in T.
Inside(doc, T, k) == \E t \in T : t < k /\ k <= CloseIndex(doc, t)

\* C29: deleteElements and replaceElements change only acted-on matches.  The
\* returned document is the input, event by event in the same order, where
\* each acted-on element that lies in no other acted-on element is removed
\* with its whole subtree (delete) or replaced by newHtml, inserted as
\* markup (replace), and every event outside those elements is written as it
\* was.
C29_OnlyActedOnChanged ==
  (handler.kind = "ElementHandler" /\ phase = "done")
  => LET T == ActedOn(html, handler)
     IN out = Concat([k \in 1..Len(html) |->
                        IF Inside(html, T, k) THEN <<>>
                        ELSE IF k \in T
                        THEN (IF handler.newHtml = NULL THEN <<>> ELSE handler.newHtml)
                        ELSE Serialized(html[k])])

\* A replacement without firstOnly has ended on a document with text before
\* a matched element that has content: the text is kept, the element and its
\* content are gone, and newHtml stands in its place.
C29_Witness ==
  /\ phase = "done"
  /\ IsReplacement(handler)
  /\ ~handler.firstOnly
  /\ Len(html) >= 4
  /\ html[1].type = "text"
  /\ 2 \in Matches(html)
  /\ CloseIndex(html, 2) = 4
  /\ out = Serialized(html[1]) \o handler.newHtml

\* C30: in every state between events, if the Collector is not capturing
\* then its capture buffer is empty: no callback appends to the buffer after
\* the capture has ended or been reset.
C30_IdleBufferEmpty ==
  (phase # "threw" /\ ~collector.isCapturing) => collector.captureBuffer = <<>>

\* ------------------------------------------------ the shape of an entry

\* The positions of s where a tag other than a closing tag or a comment
\* starts, and the name of the tag that starts there.
OpenTagsIn(s) == {k \in 1..(Len(s) - 1) : s[k] = "<" /\ s[k + 1] \notin {"/", "!"}}

TagNameAt(s, k) ==
  LET ends == {j \in (k + 1)..Len(s) : s[j] \in {" ", ">"}}
      end == IF ends = {} THEN Len(s) + 1 ELSE CHOOSE j \in ends : \A i \in ends : j <= i
  IN SubSeq(s, k + 1, end - 1)

\* The positions of s where a closing tag starts.
CloseTagsIn(s) == {k \in 1..(Len(s) - 1) : s[k] = "<" /\ s[k + 1] = "/"}

\* s has as many closing tags as non-void open tags.
Balanced(s) ==
  Cardinality(CloseTagsIn(s))
    = Cardinality({k \in OpenTagsIn(s) : ~IsVoid(TagNameAt(s, k))})

\* s starts with the serialized open tag of the match opened at i and, if it
\* has a closing tag, ends with the closing tag of that element.
EntryOf(doc, i, s) ==
  /\ IsPrefix(Serialized(doc[i]), s)
  /\ CloseTagsIn(s) # {} => IsSuffix(CloseTag(doc[i].tagName), s)

\* C31: every entry pushed to results in capture mode starts with the
\* serialized open tag of a matched element and is balanced: it has as many
\* closing tags as non-void open tags, and its last closing tag names the
\* matched element, nested matches of the same selector included.
C31_EntriesBalanced ==
  (rev = "postpage" /\ options.attributeName = NULL /\ phase # "threw")
  => \A n \in 1..Len(collector.results) :
       /\ Balanced(collector.results[n])
       /\ \E i \in Matches(html) : EntryOf(html, i, collector.results[n])

\* The open tag of a match is delivered in capture mode of post-page.js
\* while no capture is active.
IdleMatchOpens ==
  /\ phase = "scan"
  /\ phase' = "scan"
  /\ rev = "postpage"
  /\ options.attributeName = NULL
  /\ ~collector.isCapturing
  /\ Len(html') = Len(html) + 1
  /\ html'[Len(html')].type = "open"
  /\ html'[Len(html')].matches

\* The first match of the document, which opens while no capture is active,
\* has its result: an entry that starts with its open tag, ends with its
\* closing tag and holds each of them once.
FirstMatchCaptured ==
  (/\ phase = "done"
   /\ rev = "postpage"
   /\ options.attributeName = NULL
   /\ Matches(html) # {}
   /\ ~IsVoidTag(html, NthMatch(html, 1)))
  => \E n \in 1..Len(collector.results) :
       /\ IsPrefix(Serialized(html[NthMatch(html, 1)]), collector.results[n])
       /\ IsSuffix(CloseTag(html[NthMatch(html, 1)].tagName), collector.results[n])
       /\ Balanced(collector.results[n])

\* C32: for a match that opens while no capture is active, the wildcard
\* handler runs first and sees isCapturing false, so it neither appends the
\* open tag nor registers an end-tag callback: after the event the buffer is
\* the open tag once and the element carries the Collector's callback alone,
\* and the match's own open tag and closing tag each appear exactly once in
\* its result.
C32_IdleMatchOnce ==
  /\ [][IdleMatchOpens =>
          /\ collector'.captureBuffer = _openTag(html'[Len(html')])
          /\ ~IsVoid(html'[Len(html')].tagName) =>
               open'[Len(open')].cbs = <<Callback("Collector", <<>>)>>]_vars
  /\ []FirstMatchCaptured

\* ------------------------------------------------- getMetaDataWithTimeout

\* The default of the timeout parameter, in milliseconds; both callers leave
\* it at its default.
MetaTimeout == 2000

\* How long a call is followed, in milliseconds, and the step of its clock.
MaxElapsed == 3000

MetaStep == 1000

\* How many entries a feed has at most: one more than the posts kept.
MaxEntries == 6

\* The category terms of the feeds, in the order of their UTF-16 code units,
\* which is the order of Array.prototype.sort without a comparator.
TermOrder == <<"a", "b">>

TermRank(term) == CHOOSE i \in 1..Len(TermOrder) : TermOrder[i] = term

\* The entries of the feeds: a category list and a publication time, 0 for an
\* entry without published.$t.
FeedEntries ==
  { [title |-> "draft", category |-> <<>>, published |-> 0],
    [title |-> "old", category |-> <<"b", "a">>, published |-> 1],
    [title |-> "new", category |-> <<"a">>, published |-> 2] }

EntryLists == UNION {[1..n -> FeedEntries] : n \in 0..MaxEntries}

\* What the origin answers to the feed request: nothing usable (the fetch
\* throws, the status is not ok, or the body is not JSON), a JSON document
\* whose feed.entry is an array (or is absent), or a JSON document whose
\* feed.entry is something else, here an object.
FeedResponses ==
  {[kind |-> "failed", entry |-> <<>>], [kind |-> "object", entry |-> <<>>]}
    \cup {[kind |-> "array", entry |-> list] : list \in EntryLists}

\* getParsedJson: { entries: raw?.feed?.entry || [] }, and { entries: [] }
\* from the catch block.  forEach says whether the value has a forEach method.
GetParsedJson(response) ==
  CASE response.kind = "failed" -> [forEach |-> TRUE, entries |-> <<>>]
    [] response.kind = "array" -> [forEach |-> TRUE, entries |-> response.entry]
    [] response.kind = "object" -> [forEach |-> FALSE, entries |-> <<>>]

Pending == [state |-> "pending"]

Fulfilled(value) == [state |-> "fulfilled", value |-> value]

Rejected == [state |-> "rejected"]

\* { tags: [], recent: [] }
NoMetaData == [tags |-> <<>>, recent |-> <<>>]

\* tagsSet after the forEach over the entries.
TagsSet(entries) ==
  UNION {{entries[i].category[j] : j \in 1..Len(entries[i].category)}
           : i \in 1..Len(entries)}

\* Array.from(tagsSet).sort()
RECURSIVE SortedTags(_)
SortedTags(set) ==
  IF set = {} THEN <<>>
  ELSE LET least == CHOOSE t \in set : \A u \in set : TermRank(t) <= TermRank(u)
       IN <<least>> \o SortedTags(set \ {least})

\* recentPosts after the forEach, then .filter(post => post.published)
RECURSIVE RecentPosts(_)
RecentPosts(entries) ==
  IF entries = <<>> THEN <<>>
  ELSE LET post == [title |-> Head(entries).title,
                    published |-> Head(entries).published]
       IN (IF post.published # 0 THEN <<post>> ELSE <<>>)
            \o RecentPosts(Tail(entries))

\* The place of a post in a list sorted by (a, b) => b.published -
\* a.published: after every post that is not older.  The sort is stable.
RECURSIVE InsertByDate(_, _)
InsertByDate(post, sorted) ==
  IF sorted = <<>> THEN <<post>>
  ELSE IF Head(sorted).published >= post.published
       THEN <<Head(sorted)>> \o InsertByDate(post, Tail(sorted))
       ELSE <<post>> \o sorted

RECURSIVE SortByDate(_)
SortByDate(posts) ==
  IF posts = <<>> THEN <<>>
  ELSE InsertByDate(posts[Len(posts)], SortByDate(SubSeq(posts, 1, Len(posts) - 1)))

\* .slice(0, 5)
SliceFive(posts) == SubSeq(posts, 1, IF Len(posts) < 5 THEN Len(posts) ELSE 5)

\* The body of metaPromise after the await: a TypeError where feed.entries
\* has no forEach, outside every try block, rejects the promise.
MetaData(feed) ==
  IF ~feed.forEach THEN Rejected
  ELSE Fulfilled([tags |-> SortedTags(TagsSet(feed.entries)),
                  recent |-> SliceFive(SortByDate(RecentPosts(feed.entries)))])

\* Promise.race: the first promise to settle settles the race.
Race(race, promise) == IF race = Pending THEN promise ELSE race

InitM ==
  /\ ScanRest
  /\ invocation = NoInvocation
  /\ returned = NoInvocation
  /\ heap = <<>>
  /\ calls = <<>>
  /\ HelperRest
  /\ KvRest
  /\ SyncRest
  /\ WorkerRest
  /\ meta \in {[pc |-> "called", response |-> response, elapsed |-> 0,
                metaPromise |-> Pending, timeoutPromise |-> Pending,
                race |-> Pending] : response \in FeedResponses}

\* What getMetaDataWithTimeout leaves alone.
notMetaVars == <<scanVars, facadeVars, callVars, helperVars, kvVars, sync, worker>>

\* The timer of timeoutPromise is due and has not fired.
TimerDue == meta.timeoutPromise = Pending /\ meta.elapsed >= MetaTimeout

\* getParsedJson resolves and the rest of metaPromise runs.
MetaPromiseSettles ==
  /\ meta.pc = "called"
  /\ meta.metaPromise = Pending
  /\ LET settled == MetaData(GetParsedJson(meta.response))
     IN meta' = [meta EXCEPT !.metaPromise = settled,
                             !.race = Race(@, settled)]
  /\ UNCHANGED notMetaVars

\* setTimeout(() => resolve({ tags: [], recent: [] }), timeout)
TimerFires ==
  /\ meta.pc = "called"
  /\ TimerDue
  /\ meta' = [meta EXCEPT !.timeoutPromise = Fulfilled(NoMetaData),
                          !.race = Race(@, Fulfilled(NoMetaData))]
  /\ UNCHANGED notMetaVars

\* Time passes; a due timer fires before more time passes.
MetaTick ==
  /\ meta.pc = "called"
  /\ ~TimerDue
  /\ meta.elapsed + MetaStep <= MaxElapsed
  /\ meta' = [meta EXCEPT !.elapsed = @ + MetaStep]
  /\ UNCHANGED notMetaVars

NextM == MetaPromiseSettles \/ TimerFires \/ MetaTick

SpecM == InitM /\ [][NextM]_vars

\* The tags are the distinct terms of the feed in ascending order.
SortedDistinctTags(tags, entries) ==
  /\ {tags[i] : i \in 1..Len(tags)} = TagsSet(entries)
  /\ \A i, j \in 1..Len(tags) : i < j => TermRank(tags[i]) < TermRank(tags[j])

\* The posts are at most five published posts of the feed, newest first, and
\* no published post left out is newer than one of them.
FiveMostRecent(recent, entries) ==
  LET dated == {i \in 1..Len(entries) : entries[i].published # 0}
  IN /\ Len(recent) = (IF Cardinality(dated) < 5 THEN Cardinality(dated) ELSE 5)
     /\ \A i, j \in 1..Len(recent) :
          i < j => recent[i].published >= recent[j].published
     /\ \E kept \in SUBSET dated :
          /\ Cardinality(kept) = Len(recent)
          /\ \A k \in 1..Len(recent) :
               Cardinality({i \in kept : entries[i].published = recent[k].published})
                 = Cardinality({m \in 1..Len(recent) :
                                  recent[m].published = recent[k].published})
          /\ \A i \in kept, j \in dated \ kept :
               entries[i].published >= entries[j].published

\* C33: getMetaDataWithTimeout never rejects and has resolved once the
\* timeout has passed: with { tags: [], recent: [] } where the fetch failed or
\* the timer came first, and otherwise with the sorted distinct tags and at
\* most the five most recently published posts of the feed.
C33_ResolvesInTime ==
  meta.pc = "called" =>
    /\ meta.race # Rejected
    /\ meta.elapsed > MetaTimeout => meta.race.state = "fulfilled"
    /\ meta.race.state = "fulfilled" =>
         LET entries == GetParsedJson(meta.response).entries
             fromFeed ==
               /\ SortedDistinctTags(meta.race.value.tags, entries)
               /\ FiveMostRecent(meta.race.value.recent, entries)
         IN /\ meta.race.value = NoMetaData \/ fromFeed
            /\ meta.timeoutPromise = Pending => fromFeed
            /\ meta.response.kind = "failed" => meta.race.value = NoMetaData

\* ------------------------------------------------------------ the KV sync

\* The two scripts that sync the resources directory to KV.
SyncScripts == {"sync-to-kv.js", "push-to-kv-action.js"}

\* The KV keys of the files under ROOT, in the order readdirSync lists them.
SyncOrder == <<"css:/site", "js:/app">>

SyncKeys == {SyncOrder[i] : i \in 1..Len(SyncOrder)}

\* What a file can contain; "" stands for a KV key that holds nothing.
Contents == {"v1", "v2"}

\* How many runs of a script are followed, one after the other.
MaxRuns == 2

\* hashContent: the SHA-256 of the content, taken to be free of collisions.
\* <<>> stands for a key the cache does not have.
hashContent(content) == <<"sha256", content>>

\* What fetch does with the PUT: the value is stored and the response is ok,
\* the response is not ok and nothing is stored, or fetch rejects.
UploadOutcomes == {"ok", "not ok", "rejects"}

\* The state before a run: KV holds some content or nothing under each key,
\* and the cache file lists exactly what KV holds.  let cache = ... reads the
\* file.
SyncStart(script, files, stored) ==
  LET listed == [key \in SyncKeys |->
                   IF stored[key] = "" THEN <<>> ELSE hashContent(stored[key])]
  IN [pc |-> "walk", script |-> script, run |-> 1, files |-> files, i |-> 1,
      cache |-> listed, cacheFile |-> listed, stored |-> stored,
      uploads |-> {}, started |-> {}, wrote |-> FALSE]

InitS ==
  /\ ScanRest
  /\ invocation = NoInvocation
  /\ returned = NoInvocation
  /\ heap = <<>>
  /\ calls = <<>>
  /\ HelperRest
  /\ KvRest
  /\ MetaRest
  /\ WorkerRest
  /\ sync \in {SyncStart(script, files, stored) :
                 script \in SyncScripts,
                 files \in [SyncKeys -> Contents],
                 stored \in [SyncKeys -> Contents \cup {""}]}

\* What a KV sync script leaves alone.
notSyncVars == <<scanVars, facadeVars, callVars, helperVars, kvVars, meta, worker>>

\* One turn of the loop of walkAndSync for a file, up to its await where it
\* has one.  sync-to-kv.js awaits the upload and sets cache[key] after it;
\* push-to-kv-action.js starts the upload, sets cache[key] at once and goes on.
WalkAndSync ==
  /\ sync.pc = "walk"
  /\ sync.i <= Len(SyncOrder)
  /\ LET key == SyncOrder[sync.i]
         content == sync.files[key]
         hash == hashContent(content)
         upload == [key |-> key, value |-> content]
     IN IF sync.cache[key] = hash
        THEN sync' = [sync EXCEPT !.i = @ + 1]
        ELSE IF sync.script = "sync-to-kv.js"
        THEN sync' = [sync EXCEPT !.pc = "upload",
                                  !.uploads = @ \cup {upload},
                                  !.started = @ \cup {key}]
        ELSE sync' = [sync EXCEPT !.uploads = @ \cup {upload},
                                  !.started = @ \cup {key},
                                  !.cache[key] = hash,
                                  !.i = @ + 1]
  /\ UNCHANGED notSyncVars

\* An upload settles.  uploadToKV logs a response that is not ok and returns
\* normally; it rejects where fetch rejects.  sync-to-kv.js resumes after its
\* await: it sets cache[key], or leaves through the catch block with exit code
\* 1.  In push-to-kv-action.js nothing settles before the synchronous code has
\* run to its end, nobody waits for the promise, and a rejection is unhandled:
\* the process goes on or ends, as the Node version decides.
UploadToKV(upload, outcome, ends) ==
  /\ upload \in sync.uploads
  /\ LET stored == IF outcome = "ok"
                   THEN [sync.stored EXCEPT ![upload.key] = upload.value]
                   ELSE sync.stored
         left == sync.uploads \ {upload}
     IN IF sync.script = "sync-to-kv.js"
        THEN /\ sync.pc = "upload"
             /\ ends = (outcome = "rejects")
             /\ sync' =
                  IF outcome = "rejects"
                  THEN [sync EXCEPT !.pc = "failed", !.uploads = left]
                  ELSE [sync EXCEPT !.pc = "walk", !.uploads = left,
                                    !.stored = stored,
                                    !.cache[upload.key] = hashContent(upload.value),
                                    !.i = @ + 1]
        ELSE /\ sync.pc = "written"
             /\ ends => outcome = "rejects"
             /\ sync' =
                  IF ends
                  THEN [sync EXCEPT !.pc = "failed", !.uploads = {}]
                  ELSE [sync EXCEPT !.pc = IF left = {} THEN "done" ELSE @,
                                    !.uploads = left,
                                    !.stored = stored]
  /\ UNCHANGED notSyncVars

\* fs.writeFileSync(CACHE_FILE, JSON.stringify(cache, null, 2)) after
\* walkAndSync has returned: in sync-to-kv.js after the awaited walk, in
\* push-to-kv-action.js right after the synchronous walk.
WriteCacheFile ==
  /\ sync.pc = "walk"
  /\ sync.i > Len(SyncOrder)
  /\ sync' = [sync EXCEPT !.cacheFile = sync.cache,
                          !.wrote = TRUE,
                          !.pc = IF sync.uploads = {} THEN "done" ELSE "written"]
  /\ UNCHANGED notSyncVars

\* The process is stopped from outside; the uploads in flight are lost.
Interrupt ==
  /\ sync.pc \in {"walk", "upload", "written"}
  /\ sync' = [sync EXCEPT !.pc = "interrupted", !.uploads = {}]
  /\ UNCHANGED notSyncVars

\* The run is over.
RunOver == sync.pc \in {"done", "failed", "interrupted"}

\* The script is run again on the same files: it reads the cache file.
NextRun ==
  /\ RunOver
  /\ sync.run < MaxRuns
  /\ sync' = [sync EXCEPT !.pc = "walk", !.run = @ + 1, !.i = 1,
                          !.cache = sync.cacheFile,
                          !.started = {}, !.wrote = FALSE]
  /\ UNCHANGED notSyncVars

NextS ==
  \/ WalkAndSync
  \/ \E upload \in [key : SyncKeys, value : Contents],
        outcome \in UploadOutcomes, ends \in BOOLEAN :
       UploadToKV(upload, outcome, ends)
  \/ WriteCacheFile
  \/ Interrupt
  \/ NextRun

SpecS == InitS /\ [][NextS]_vars

\* The cache file lists the file under key with its present content.
Listed(key) == sync.cacheFile[key] = hashContent(sync.files[key])

\* KV holds the present content of the file under key.
Uploaded(key) == sync.stored[key] = sync.files[key]

\* C34: after any run, a key whose cached hash is the hash of the file's
\* content holds that content in KV, so that a file whose upload failed is not
\* skipped by the next run.
C34_ListedMeansUploaded ==
  (sync.pc # "rest" /\ RunOver) => \A key \in SyncKeys : Listed(key) => Uploaded(key)

\* C35: the cache file is written only when every upload the run has started
\* has completed, and a run interrupted before that leaves no cache file that
\* lists a file whose upload it started and that was not uploaded.
C35_WrittenAfterUploads ==
  /\ [][(sync.pc # "rest" /\ ~sync.wrote /\ sync'.wrote) => sync.uploads = {}]_vars
  /\ [](sync.pc = "interrupted" =>
          \A key \in sync.started : Listed(key) => Uploaded(key))

\* ---------------------------------------------------- the translate worker

\* validProviders
validProviders == {"DEEPL", "AZURE"}

\* The provider query parameter of X-Origin-URL, upper-cased; "" where the
\* URL has none.
ForcedProviders == {"", "DEEPL", "AZURE", "YANDEX"}

\* What chooseAvailableProvider resolves to; "null" stands for null.
AvailableProviders == {"DEEPL", "AZURE", "null"}

\* The requests one isolate of the worker serves at the same time.
Requests == 1..2

\* A request that has arrived; "" stands for a local not yet assigned.
NewRequestFor(forcedProvider) ==
  [pc |-> "new", forcedProvider |-> forcedProvider, chosen |-> "",
   used |-> "", dataProvider |-> "", status |-> 0]

InitT ==
  /\ ScanRest
  /\ invocation = NoInvocation
  /\ returned = NoInvocation
  /\ heap = <<>>
  /\ calls = <<>>
  /\ HelperRest
  /\ KvRest
  /\ MetaRest
  /\ SyncRest
  /\ worker \in {[pc |-> "serving", provider |-> "NONE", requests |-> requests] :
                   requests \in [Requests -> {NewRequestFor(forcedProvider) :
                                              forcedProvider \in ForcedProviders}]}

\* What the translate worker leaves alone.
notWorkerVars == <<scanVars, facadeVars, callVars, helperVars, kvVars, meta, sync>>

\* fetch up to its first await: a valid forced provider is assigned to the
\* module-level provider and the handler runs on to await request.text();
\* otherwise the handler awaits chooseAvailableProvider.
SelectProvider(r) ==
  /\ worker.pc = "serving"
  /\ worker.requests[r].pc = "new"
  /\ LET forcedProvider == worker.requests[r].forcedProvider
     IN IF forcedProvider \in validProviders
        THEN worker' = [worker EXCEPT !.provider = forcedProvider,
                                      !.requests[r].chosen = forcedProvider,
                                      !.requests[r].pc = "text"]
        ELSE worker' = [worker EXCEPT !.requests[r].pc = "choosing"]
  /\ UNCHANGED notWorkerVars

\* provider = await chooseAvailableProvider(env): the promise resolves, the
\* result is assigned to the module-level provider, and the handler runs on to
\* await request.text().
ChooseAvailableProvider(r, available) ==
  /\ worker.pc = "serving"
  /\ worker.requests[r].pc = "choosing"
  /\ worker' = [worker EXCEPT !.provider = available,
                              !.requests[r].chosen = available,
                              !.requests[r].pc = "text"]
  /\ UNCHANGED notWorkerVars

\* request.text() resolves and the handler branches on the module-level
\* provider: it awaits the translation of that provider, or answers 400.
DispatchProvider(r) ==
  /\ worker.pc = "serving"
  /\ worker.requests[r].pc = "text"
  /\ IF worker.provider \in validProviders
     THEN worker' = [worker EXCEPT !.requests[r].used = worker.provider,
                                   !.requests[r].pc = "translating"]
     ELSE worker' = [worker EXCEPT !.requests[r].status = 400,
                                   !.requests[r].pc = "done"]
  /\ UNCHANGED notWorkerVars

\* The translation arrives: 502 where it failed, and otherwise the handler
\* returns buildRewriter(targetLang).transform(response), whose body is
\* rewritten as it is streamed to the client.
Translate(r, ok) ==
  /\ worker.pc = "serving"
  /\ worker.requests[r].pc = "translating"
  /\ worker' = [worker EXCEPT !.requests[r].status = IF ok THEN 200 ELSE 502,
                              !.requests[r].pc = IF ok THEN "streaming" ELSE "done"]
  /\ UNCHANGED notWorkerVars

\* The element handler of buildRewriter for html:
\* el.setAttribute('data-provider', provider) reads the module-level provider.
BuildRewriter(r) ==
  /\ worker.pc = "serving"
  /\ worker.requests[r].pc = "streaming"
  /\ worker' = [worker EXCEPT !.requests[r].dataProvider = worker.provider,
                              !.requests[r].pc = "done"]
  /\ UNCHANGED notWorkerVars

NextT ==
  \E r \in Requests :
    \/ SelectProvider(r)
    \/ \E available \in AvailableProviders : ChooseAvailableProvider(r, available)
    \/ DispatchProvider(r)
    \/ \E ok \in BOOLEAN : Translate(r, ok)
    \/ BuildRewriter(r)

SpecT == InitT /\ [][NextT]_vars

\* C36: the provider a request is translated with, and the provider written
\* to the data-provider attribute of its response, is the provider chosen for
\* that request, whatever the other request does in between.
C36_OwnProvider ==
  worker.pc = "serving" =>
    \A r \in Requests :
      /\ worker.requests[r].used # "" =>
           worker.requests[r].used = worker.requests[r].chosen
      /\ worker.requests[r].dataProvider # "" =>
           worker.requests[r].dataProvider = worker.requests[r].chosen

====
